---- MODULE Spec2Model ----
(***************************************************************************)
(* BaseProtocol (biopsykit/protocols/base.py): the raw heart-rate and      *)
(* R-peak stores, the three result caches (hr_results, hrv_results,        *)
(* hr_ensemble) and the compute_* pipelines that fill them.                *)
(*                                                                         *)
(* Data representation.  A nested Python dictionary is kept flattened, as  *)
(* the sequence of its leaves in iteration order, each with its key path:  *)
(*   {"s1": {"p1": df}}   is   << [path |-> <<"s1","p1">>, leaf |-> df] >> *)
(* A pandas table is a record of its row count, its time extent, its       *)
(* columns and the marks the transformers leave on it.  An optional value  *)
(* (a Python None or a value) is the sequence <<>> or <<value>>.           *)
(***************************************************************************)
EXTENDS Integers, Sequences, FiniteSets, TLC

\* Number of calls made on one Protocol instance in a behaviour.
MaxOps == 3

None == <<>>
\* the empty dictionary
EmptyMap == [k \in {} |-> k]
Some(x) == <<x>>

SeqToSet(s) == {s[i] : i \in 1..Len(s)}

\* the one element of a singleton set
The(S) == CHOOSE x \in S : TRUE

\* the sequence f as a tuple, its elements computed once
Tuple(f) == f \o <<>>

\* the elements of s whose place in s is in the set idx, in order
SelectSeq2(s, idx) ==
  Tuple([k \in 1..Cardinality(idx) |->
           s[CHOOSE i \in idx : Cardinality({j \in idx : j < i}) = k - 1]])

\* s without repetitions, first occurrences kept (the key order of a dict
\* built by inserting the elements of s one after the other)
Uniq(s) ==
  SelectSeq2(s, {i \in 1..Len(s) : \A j \in 1..(i - 1) : s[j] # s[i]})

Min2(a, b) == IF a < b THEN a ELSE b

\* ------------------------------------------------------------------------
\* Tables and nested dictionaries

Frame(rows, dur) ==
  [kind |-> "frame", rows |-> rows, dur |-> dur, cols |-> <<"Heart_Rate">>,
   res |-> FALSE, norm |-> FALSE]

\* a dictionary value that is neither a dictionary nor a table
Other == [kind |-> "other", rows |-> 0, dur |-> 0, cols |-> <<>>,
          res |-> FALSE, norm |-> FALSE]

Ent(path, leaf) == [path |-> path, leaf |-> leaf]

\* A value handled by the pipelines: shape names the nesting, names the index
\* level names of a flat table, subj the place of the subject key in a path
\* (0: subjects are columns).
Val(shape, names, subj, ents) ==
  [shape |-> shape, names |-> names, subj |-> subj, ents |-> ents]

EmptyVal == Val("subject_outer", <<>>, 1, <<>>)

Ok(v) == [err |-> "", v |-> v]
Fail(e) == [err |-> e, v |-> EmptyVal]

\* keys of the dictionary at nesting level k, in iteration order
KeysAt(ents, k) ==
  Uniq(Tuple([i \in 1..Len(ents) |-> ents[i].path[k]]))

\* the leaves below key `key` at level k
Below(ents, k, key) ==
  SelectSeq2(ents, {i \in 1..Len(ents) : ents[i].path[k] = key})

MapLeaves(ents, F(_)) ==
  Tuple([i \in 1..Len(ents) |-> Ent(ents[i].path, F(ents[i].leaf))])

RECURSIVE Flatten(_)
Flatten(ss) == IF ss = <<>> THEN <<>> ELSE Head(ss) \o Flatten(Tail(ss))

RECURSIVE MinRows(_)
MinRows(ents) ==
  IF Len(ents) = 1 THEN ents[1].leaf.rows
  ELSE Min2(ents[1].leaf.rows, MinRows(Tail(ents)))

\* ------------------------------------------------------------------------
\* The transformers of biopsykit.utils.data_processing.  Each returns a new
\* structure, Ok(v), or raises, Fail(error class); none changes its argument.

\* resample every series to one sample per second over its own time extent
resample_dict_sec(v) ==
  Ok([v EXCEPT !.ents = MapLeaves(v.ents,
        LAMBDA l : [l EXCEPT !.rows = l.dur, !.res = TRUE])])

\* per subject, relate every phase to the subject's mean in the reference phase
normalize_to_phase(v, param) ==
  IF param = None THEN Fail("ValidationError")
  ELSE IF \E s \in SeqToSet(KeysAt(v.ents, 1)) :
            param[1] \notin SeqToSet(KeysAt(Below(v.ents, 1, s), 2))
       THEN Fail("KeyError")
       ELSE Ok([v EXCEPT !.ents = MapLeaves(v.ents,
                  LAMBDA l : [l EXCEPT !.norm = TRUE])])

\* per subject, the named phases in the order the data has them
select_in_data_order(v, param) ==
  IF param = None THEN Fail("ValidationError")
  ELSE IF \E i \in 1..Len(v.ents) : Len(v.ents[i].path) < 2 THEN Fail("KeyError")
  ELSE IF \E s \in SeqToSet(KeysAt(v.ents, 1)) :
            ~(SeqToSet(param[1]) \subseteq SeqToSet(KeysAt(Below(v.ents, 1, s), 2)))
       THEN Fail("KeyError")
       ELSE Ok([v EXCEPT !.ents = SelectSeq2(v.ents,
                  {i \in 1..Len(v.ents) : v.ents[i].path[2] \in SeqToSet(param[1])})])

\* per subject, the named phases in the order of the names
select_dict_phases(v, param) ==
  IF param = None THEN Fail("ValidationError")
  ELSE IF \E i \in 1..Len(v.ents) : Len(v.ents[i].path) < 2 THEN Fail("KeyError")
  ELSE LET names == Uniq(param[1])
           subjects == KeysAt(v.ents, 1)
           Of(s) == Flatten([j \in 1..Len(names) |->
                       Below(Below(v.ents, 1, s), 2, names[j])])
       IN IF \E s \in SeqToSet(subjects) :
               ~(SeqToSet(names) \subseteq SeqToSet(KeysAt(Below(v.ents, 1, s), 2)))
          THEN Fail("KeyError")
          ELSE Ok([v EXCEPT !.ents =
                  Flatten([i \in 1..Len(subjects) |-> Of(subjects[i])])])

RECURSIVE StartOf(_, _)
\* the start of window i: the sum of the durations before it
StartOf(durs, i) == IF i = 1 THEN 0 ELSE StartOf(durs, i - 1) + durs[i - 1][2]

\* window i at its nominal duration, whatever is left of the series
Window_nominal(l, durs, i) ==
  [l EXCEPT !.dur = durs[i][2],
            !.rows = IF l.dur = 0 THEN 0 ELSE (durs[i][2] * l.rows) \div l.dur]

\* window i of a series: at most its nominal duration, cut where the series ends
Window(l, durs, i) ==
  LET left == IF l.dur > StartOf(durs, i) THEN l.dur - StartOf(durs, i) ELSE 0
      d == Min2(durs[i][2], left)
  IN [l EXCEPT !.dur = d,
               !.rows = IF l.dur = 0 THEN 0
                        ELSE ((StartOf(durs, i) + d) * l.rows) \div l.dur
                             - (StartOf(durs, i) * l.rows) \div l.dur]

\* slice every series into the consecutive windows of the subphase mapping
split_dict_into_subphases(v, param) ==
  IF param = None THEN Fail("ValidationError")
  ELSE IF \E i \in 1..Len(v.ents) : Len(v.ents[i].path) # 2
       THEN Fail("ValidationError")
  ELSE LET durs == param[1]
           Of(e) == [i \in 1..Len(durs) |->
                       Ent(Append(e.path, durs[i][1]), Window(e.leaf, durs, i))]
       IN Ok([v EXCEPT !.ents =
                Flatten([k \in 1..Len(v.ents) |-> Of(v.ents[k])])])

\* the means of the first subject only
mean_of_first_subject(v, index_names) ==
  Ok([v EXCEPT !.shape = "table", !.names = index_names,
               !.ents = MapLeaves(Below(v.ents, 1, v.ents[1].path[1]),
                  LAMBDA l : [l EXCEPT !.rows = 1, !.dur = 0])])

\* one row, the mean, for every series; index levels named by index_names
mean_per_subject_dict(v, index_names) ==
  Ok([v EXCEPT !.shape = "table", !.names = index_names,
               !.ents = MapLeaves(v.ents,
                  LAMBDA l : [l EXCEPT !.rows = 1, !.dur = 0])])

\* the condition of a subject in a condition list (<<subject, condition>>
\* pairs), None if it has none
ConditionOf(conds, s) ==
  LET hits == SelectSeq(conds, LAMBDA c : c[1] = s)
  IN IF hits = <<>> THEN None ELSE Some(hits[1][2])

\* join the subjects' conditions onto the data as a further index level
add_subject_conditions(v, param) ==
  IF param = None THEN Fail("ValidationError")
  ELSE IF \E i \in 1..Len(v.ents) :
            ConditionOf(param[1], v.ents[i].path[v.subj]) = None
       THEN Fail("ValidationError")
       ELSE Ok([v EXCEPT
              !.names = IF v.shape = "table" THEN Append(v.names, "condition")
                        ELSE v.names,
              !.ents = [i \in 1..Len(v.ents) |->
                 Ent(v.ents[i].path \o ConditionOf(param[1], v.ents[i].path[v.subj]),
                     v.ents[i].leaf)]])

\* subject -> phase -> series   becomes   phase -> subject -> series
rearrange_subject_data_dict(v) ==
  LET phases == KeysAt(v.ents, 2)
      Of(p) == LET b == Below(v.ents, 2, p)
               IN [i \in 1..Len(b) |->
                     Ent(<<b[i].path[2], b[i].path[1]>>, b[i].leaf)]
  IN Ok([v EXCEPT !.shape = "phase_outer", !.subj = 2,
                  !.ents = Flatten([j \in 1..Len(phases) |-> Of(phases[j])])])

\* per phase, cut every subject's series to the shortest one
cut_phases_to_shortest(v) ==
  Ok([v EXCEPT !.ents = [i \in 1..Len(v.ents) |->
        LET m == MinRows(Below(v.ents, 1, v.ents[i].path[1]))
            l == v.ents[i].leaf
        IN Ent(v.ents[i].path,
               [l EXCEPT !.rows = m, !.dur = IF l.res THEN m ELSE l.dur])]])

\* What the merge does with series of unequal length within a phase is left
\* open: it requires them cut beforehand ("require": it raises), or it cuts
\* them itself ("truncate").
MergeModes == {"require", "truncate"}

\* a merge that keeps the length of the first subject's series
merge_first_length(v, mode) ==
  LET phases == KeysAt(v.ents, 1)
      Of(p) == LET b == Below(v.ents, 1, p)
               IN Ent(<<p>>, [b[1].leaf EXCEPT
                     !.cols = Tuple([i \in 1..Len(b) |-> b[i].path[2]])])
  IN Ok([v EXCEPT !.shape = "merged", !.subj = 0,
                  !.ents = Tuple([j \in 1..Len(phases) |-> Of(phases[j])])])

\* per phase, one frame with one column per subject, as long as the shortest
merge_study_data_dict(v, mode) ==
  LET phases == KeysAt(v.ents, 1)
      Of(p) == LET b == Below(v.ents, 1, p)
               IN Ent(<<p>>, [b[1].leaf EXCEPT
                     !.rows = MinRows(b),
                     !.dur = IF b[1].leaf.res THEN MinRows(b) ELSE b[1].leaf.dur,
                     !.cols = Tuple([i \in 1..Len(b) |-> b[i].path[2]])])
      unequal == \E i, j \in 1..Len(v.ents) :
                    /\ v.ents[i].path[1] = v.ents[j].path[1]
                    /\ v.ents[i].leaf.rows # v.ents[j].leaf.rows
  IN IF mode = "require" /\ unequal THEN Fail("ValidationError")
     ELSE Ok([v EXCEPT !.shape = "merged", !.subj = 0,
                       !.ents = Tuple([j \in 1..Len(phases) |-> Of(phases[j])])])

\* regroup by condition: condition -> phase -> frame of that condition's
\* subjects (merged), or condition -> phase -> subject -> series (un-merged)
split_subject_conditions(v, param) ==
  LET conds == IF param = None THEN <<>> ELSE param[1]
      labels == Uniq([i \in 1..Len(conds) |-> conds[i][2]])
      SubjectsOf(e) == IF v.subj = 0 THEN SeqToSet(e.leaf.cols)
                       ELSE {e.path[v.subj]}
      In(c, s) == ConditionOf(conds, s) = Some(c)
      Of(c) ==
        IF v.subj = 0
        THEN [i \in 1..Len(v.ents) |->
                Ent(<<c>> \o v.ents[i].path,
                    [v.ents[i].leaf EXCEPT
                       !.cols = SelectSeq(@, LAMBDA s : In(c, s))])]
        ELSE LET mine == SelectSeq(v.ents, LAMBDA e : In(c, e.path[v.subj]))
             IN [i \in 1..Len(mine) |->
                   Ent(<<c>> \o mine[i].path, mine[i].leaf)]
  IN IF param = None THEN Fail("ValidationError")
     ELSE IF \E i \in 1..Len(v.ents) : \E s \in SubjectsOf(v.ents[i]) :
               ConditionOf(conds, s) = None
          THEN Fail("ValidationError")
          ELSE Ok([v EXCEPT
                 !.shape = "by_condition",
                 !.subj = IF v.subj = 0 THEN 0 ELSE v.subj + 1,
                 !.ents = Flatten([j \in 1..Len(labels) |-> Of(labels[j])])])

\* ------------------------------------------------------------------------
\* State of one Protocol instance and of the caller's objects it refers to

VARIABLES
  world,        \* the caller's objects, by name: what each currently holds
  hr_data,      \* self.hr_data: study part -> the caller's object stored there
  rpeak_data,   \* self.rpeak_data: study part -> the caller's object
  hr_results,   \* self.hr_results: identifier -> entry
  hrv_results,  \* self.hrv_results: identifier -> entry
  hr_ensemble,  \* self.hr_ensemble: identifier -> entry
  order,        \* per cache, its identifiers in insertion order
  name,         \* self.name, a string kept as its sequence of characters
  structure,    \* self.structure
  test_times,   \* self.test_times
  saliva_types, \* self.saliva_types
  sample_times, \* self.sample_times: saliva type -> sample times
  saliva_data,  \* self.saliva_data: saliva type -> table
  files,        \* the files on disk: path -> content
  loaded,       \* the instance the last from_file returned, None before
  written,      \* per cache and identifier, the content at the time of its last write
  handed,       \* the <<cache, identifier>> whose object a getter gave to the caller
  saved,        \* per file written by to_file, the instance's fields at that time
  last,         \* the last call: its arguments and its outcome
  nops          \* number of calls made so far

caches == <<hr_results, hrv_results, hr_ensemble, order>>
raw == <<hr_data, rpeak_data>>
saliva == <<saliva_types, sample_times, saliva_data>>
basics == <<name, structure, test_times>>
disk == <<files, loaded>>

ghost == <<written, handed, saved>>

vars == <<world, raw, caches, basics, saliva, disk, ghost, last, nops>>

Flags == [resample_sec : BOOLEAN, normalize_to : BOOLEAN, select_phases : BOOLEAN,
          split_into_subphases : BOOLEAN, mean_per_subject : BOOLEAN,
          add_conditions : BOOLEAN, cut_phases : BOOLEAN, merge_dict : BOOLEAN]

NoFlags == [resample_sec |-> FALSE, normalize_to |-> FALSE, select_phases |-> FALSE,
            split_into_subphases |-> FALSE, mean_per_subject |-> FALSE,
            add_conditions |-> FALSE, cut_phases |-> FALSE, merge_dict |-> FALSE]

\* A params dictionary: for every key the value given for it, None if the
\* key is missing.
NoParams == [normalize_to |-> None, select_phases |-> None,
             split_into_subphases |-> None, mean_per_subject |-> None,
             add_conditions |-> None]

ParamKeys == DOMAIN NoParams

\* params.pop(key, default): the key is taken out of the dictionary
dict_pop(d, key, default) ==
  [val |-> IF d[key] = None THEN default ELSE d[key], d |-> [d EXCEPT ![key] = None]]

\* params.get(key, default): the value, and the dictionary after the call
dict_get(d, key, default) ==
  [val |-> IF d[key] = None THEN default ELSE d[key], d |-> d]

\* A cache entry is a reference to an object: one of the caller's (name), or
\* one built by a pipeline (content v).  alias names the caller's dictionary
\* whose per-subject dictionaries the entry shares (a shallow copy); born is
\* the number of the call that stored the reference.
Entry(obj, v, alias) == [name |-> obj, v |-> v, alias |-> alias, born |-> nops + 1]

\* what reading the entry yields now
Read(e) ==
  IF e.name # "" THEN world[e.name]
  ELSE IF e.alias # ""
       THEN LET subjects == KeysAt(e.v.ents, 1)
            IN [e.v EXCEPT !.ents = Flatten([i \in 1..Len(subjects) |->
                                  Below(world[e.alias].ents, 1, subjects[i])])]
       ELSE e.v

Put(cache, id, e) == [k \in DOMAIN cache \cup {id} |-> IF k = id THEN e ELSE cache[k]]

Call(op, id, part, f, params) ==
  [op |-> op, id |-> id, part |-> part, flags |-> f, params_in |-> params,
   params_out |-> params, raised |-> FALSE, err |-> "", at |-> "",
   trace |-> <<>>, consulted |-> {}, ret |-> None, levels |-> None,
   base_path |-> "", prefix |-> None, args |-> <<>>]

\* the outcome of a pipeline run w, recorded on the call
Outcome(call, w) ==
  [call EXCEPT !.raised = w.err # "", !.err = w.err, !.at = w.at,
               !.trace = w.trace, !.consulted = w.consulted,
               !.params_out = IF call.params_in = None THEN None ELSE w.params]

Raise(call, e, at) == [call EXCEPT !.raised = TRUE, !.err = e, !.at = at]

\* ------------------------------------------------------------------------
\* Pipelines.  The working state w of a compute_* call: the local data_dict
\* (v; alias as in Entry), the local params, the pending exception (err, raised
\* in step at), the steps completed and the params keys looked up.

\* a pipeline start that looks an omitted study part up as it is
Begin_without_default(store, study_part, params) ==
  LET found == study_part # None /\ study_part[1] \in DOMAIN store
  IN [v |-> IF found THEN world[store[study_part[1]]] ELSE EmptyVal,
      alias |-> IF found THEN store[study_part[1]] ELSE "",
      err |-> IF found THEN "" ELSE "KeyError",
      at |-> IF found THEN "" ELSE "study_part",
      trace |-> <<>>, consulted |-> {}, params |-> params]

\* study_part defaulting and  data_dict = store[study_part].copy()
Begin(store, study_part, params) ==
  LET part == IF study_part = None THEN "Study" ELSE study_part[1]
      found == part \in DOMAIN store
  IN [v |-> IF found THEN world[store[part]] ELSE EmptyVal,
      alias |-> IF found THEN store[part] ELSE "",
      err |-> IF found THEN "" ELSE "KeyError",
      at |-> IF found THEN "" ELSE "study_part",
      trace |-> <<>>, consulted |-> {}, params |-> params]

\* if params is None: params = {}
DefaultParams(w) ==
  IF w.err = "" /\ w.params = None THEN [w EXCEPT !.params = Some(NoParams)] ELSE w

\* data_dict = transformer(data_dict), r being what the transformer yielded
Merge(w, step, r) ==
  IF r.err # "" THEN [w EXCEPT !.err = r.err, !.at = step]
  ELSE [w EXCEPT !.v = r.v, !.alias = "", !.trace = Append(@, step)]

Step(w, step, r) ==
  IF w.err # "" THEN w ELSE The({Merge(w, step, x) : x \in {r}})

\* params.get(key, default) in the working state w
Param(w, key, default) ==
  IF w.params = None THEN None ELSE dict_get(w.params[1], key, default).val

\* param = params.get(key, default); data_dict = transformer(data_dict, param),
\* r being what the transformer yields
StepP(w, step, key, r) ==
  IF w.err # "" THEN w
  ELSE IF w.params = None THEN [w EXCEPT !.err = "AttributeError", !.at = step]
  ELSE Step([w EXCEPT !.params = Some(dict_get(w.params[1], key, None).d),
                      !.consulted = @ \cup {key}], step, r)

\* The steps of compute_hr_results, each on the working state w it is given
HrResample(f, w) ==
  IF f.resample_sec THEN Step(w, "resample", resample_dict_sec(w.v)) ELSE w

HrNormalize(f, w) ==
  IF f.normalize_to
  THEN StepP(w, "normalize", "normalize_to",
             normalize_to_phase(w.v, Param(w, "normalize_to", None)))
  ELSE w

HrSelect(f, w) ==
  IF f.select_phases
  THEN StepP(w, "select_phases", "select_phases",
             select_dict_phases(w.v, Param(w, "select_phases", None)))
  ELSE w

HrSplit(f, w) ==
  IF f.split_into_subphases
  THEN StepP(w, "split_into_subphases", "split_into_subphases",
             split_dict_into_subphases(w.v, Param(w, "split_into_subphases", None)))
  ELSE w

\* the mean_per_subject step run whatever its flag says
HrMeanAlways(f, w) ==
  StepP(w, "mean_per_subject", "mean_per_subject",
        mean_per_subject_dict(w.v,
           Param(w, "mean_per_subject", Some(<<"subject", "phase">>))[1]))

HrMean(f, w) ==
  IF f.mean_per_subject
  THEN StepP(w, "mean_per_subject", "mean_per_subject",
             mean_per_subject_dict(w.v,
                Param(w, "mean_per_subject", Some(<<"subject", "phase">>))[1]))
  ELSE w

HrAddConditions(f, w) ==
  IF f.add_conditions
  THEN StepP(w, "add_conditions", "add_conditions",
             add_subject_conditions(w.v, Param(w, "add_conditions", None)))
  ELSE w

\* compute_hr_results with the phases selected before the normalization
HrPipelineSwapped(study_part, f, params) ==
  The({HrAddConditions(f, w5) : w5 \in
      {HrMean(f, w4) : w4 \in
      {HrSplit(f, w3) : w3 \in
      {HrNormalize(f, w2) : w2 \in
      {HrSelect(f, w1) : w1 \in
      {HrResample(f, w0) : w0 \in
      {DefaultParams(Begin(hr_data, study_part, params))}}}}}}})

\* The body of compute_hr_results up to the store: the innermost step runs
\* first, each step on what the step before it left.
HrPipeline(study_part, f, params) ==
  The({HrAddConditions(f, w5) : w5 \in
      {HrMean(f, w4) : w4 \in
      {HrSplit(f, w3) : w3 \in
      {HrSelect(f, w2) : w2 \in
      {HrNormalize(f, w1) : w1 \in
      {HrResample(f, w0) : w0 \in
      {DefaultParams(Begin(hr_data, study_part, params))}}}}}}})

\* compute_hr_results with the entry created before the steps run: a
\* placeholder is left behind when a step raises
compute_hr_results_placeholder(result_id, study_part, f, params) ==
  LET call == Call("compute_hr_results", result_id, study_part, f, params)
  IN \E w \in {HrPipeline(study_part, f, params)} :
     /\ hr_results' = Put(hr_results, result_id,
                          Entry("", IF w.err = "" THEN w.v ELSE EmptyVal, w.alias))
     /\ written' = [written EXCEPT !.hr_results =
                       Put(@, result_id, IF w.err = "" THEN w.v ELSE EmptyVal)]
     /\ handed' = handed \ {<<"hr_results", result_id>>}
     /\ UNCHANGED saved
     /\ last' = Outcome(call, w)
     /\ order' = [order EXCEPT !.hr_results = Uniq(Append(@, result_id))]
     /\ UNCHANGED <<world, raw, hrv_results, hr_ensemble, basics, saliva, disk>>

compute_hr_results(result_id, study_part, f, params) ==
  LET call == Call("compute_hr_results", result_id, study_part, f, params)
  IN \E w \in {HrPipeline(study_part, f, params)} :
     /\ hr_results' = IF w.err = ""
                      THEN Put(hr_results, result_id, Entry("", w.v, w.alias))
                      ELSE hr_results
     /\ written' = IF w.err = ""
                   THEN [written EXCEPT !.hr_results = Put(@, result_id, w.v)]
                   ELSE written
     /\ handed' = IF w.err = "" THEN handed \ {<<"hr_results", result_id>>} ELSE handed
     /\ UNCHANGED saved
     /\ last' = Outcome(call, w)
     /\ order' = IF w.err = "" THEN [order EXCEPT !.hr_results = Uniq(Append(@, result_id))]
                 ELSE order
     /\ UNCHANGED <<world, raw, hrv_results, hr_ensemble, basics, saliva, disk>>

\* EcgProcessor.hrv_process(rpeaks): one row of HRV measures under an index
\* level of its own; raises on a table without peaks
hrv_process(l) ==
  IF l.rows = 0 THEN Fail("HrvError")
  ELSE Ok(Val("table", <<"">>, 1,
              <<Ent(<<"0">>, [l EXCEPT !.kind = "hrv", !.rows = 1, !.dur = 0])>>))

\* a concatenation that keeps the first frame only (a return inside the loop)
pd_concat_first(keys, frames, level) ==
  IF keys = <<>> THEN Fail("ValueError")
  ELSE Ok(Val("table", <<level>> \o frames[1].v.names, 1,
          [j \in 1..Len(frames[1].v.ents) |->
              Ent(<<keys[1]>> \o frames[1].v.ents[j].path,
                  frames[1].v.ents[j].leaf)]))

\* pd.concat(result_dict, names=[level]): the frames one below the other, their
\* keys as a new outermost index level called level
pd_concat(keys, frames, level) ==
  IF keys = <<>> THEN Fail("ValueError")
  ELSE Ok(Val("table", <<level>> \o frames[1].v.names, 1,
          Flatten([i \in 1..Len(keys) |->
             [j \in 1..Len(frames[i].v.ents) |->
                Ent(<<keys[i]>> \o frames[i].v.ents[j].path,
                    frames[i].v.ents[j].leaf)]])))

\* the leaves ents one level down: each path without its first key
Inner(ents) ==
  Tuple([i \in 1..Len(ents) |-> Ent(Tail(ents[i].path), ents[i].leaf)])

RECURSIVE compute_hrv_dict(_, _)
\* BaseProtocol._compute_hrv_dict on the dictionary with the leaves ents
compute_hrv_dict(ents, dict_levels) ==
  LET keys == KeysAt(ents, 1)
      \* the value under a key, b being the leaves below the key
      Res(b) ==
        IF \E i \in 1..Len(b) : Len(b[i].path) > 1
        THEN compute_hrv_dict(Inner(b),
                              IF dict_levels = <<>> THEN <<>> ELSE Tail(dict_levels))
        ELSE IF b[1].leaf.kind = "other" THEN Fail("ValidationError")
             ELSE hrv_process(b[1].leaf)
      results == Tuple([i \in 1..Len(keys) |->
                          The({Res(b) : b \in {Below(ents, 1, keys[i])}})])
      failed == {i \in 1..Len(keys) : results[i].err # ""}
  IN IF failed # {}
     THEN Fail(results[CHOOSE i \in failed : \A j \in failed : i <= j].err)
     ELSE IF dict_levels = <<>> THEN Fail("IndexError")
          ELSE pd_concat(keys, results, dict_levels[1])

\* DataFrame.droplevel(level=-1)
droplevel_last(v) ==
  IF Len(v.names) < 2 THEN Fail("ValueError")
  ELSE Ok([v EXCEPT !.names = SubSeq(@, 1, Len(@) - 1),
                    !.ents = [i \in 1..Len(v.ents) |->
                       Ent(SubSeq(v.ents[i].path, 1, Len(v.ents[i].path) - 1),
                           v.ents[i].leaf)]])

\* The steps of compute_hrv_results
HrvCompute(levels, w) == Step(w, "hrv", compute_hrv_dict(w.v.ents, levels))

HrvDropLevel(w) == Step(w, "droplevel", droplevel_last(w.v))

\* dict_levels as defaulted at the start of compute_hrv_results
DictLevels(f, dict_levels) ==
  IF dict_levels # None THEN dict_levels[1]
  ELSE IF f.split_into_subphases THEN <<"subject", "phase", "subphase">>
       ELSE <<"subject", "phase">>

\* compute_hrv_results with the conditions added before the level is dropped
HrvPipelineSwapped(study_part, f, dict_levels, params) ==
  The({HrvDropLevel(w4) : w4 \in
      {HrAddConditions(f, w3) : w3 \in
      {HrvCompute(DictLevels(f, dict_levels), w2) : w2 \in
      {HrSplit(f, w1) : w1 \in
      {HrSelect(f, w0) : w0 \in
      {DefaultParams(Begin(rpeak_data, study_part, params))}}}}}})

\* The body of compute_hrv_results up to the store (innermost step first)
HrvPipeline(study_part, f, dict_levels, params) ==
  The({HrAddConditions(f, w4) : w4 \in
      {HrvDropLevel(w3) : w3 \in
      {HrvCompute(DictLevels(f, dict_levels), w2) : w2 \in
      {HrSplit(f, w1) : w1 \in
      {HrSelect(f, w0) : w0 \in
      {DefaultParams(Begin(rpeak_data, study_part, params))}}}}}})

compute_hrv_results(result_id, study_part, f, dict_levels, params) ==
  LET call == Call("compute_hrv_results", result_id, study_part, f, params)
  IN \E w \in {HrvPipeline(study_part, f, dict_levels, params)} :
     /\ hrv_results' = IF w.err = ""
                       THEN Put(hrv_results, result_id, Entry("", w.v, w.alias))
                       ELSE hrv_results
     /\ written' = IF w.err = ""
                   THEN [written EXCEPT !.hrv_results = Put(@, result_id, w.v)]
                   ELSE written
     /\ handed' = IF w.err = "" THEN handed \ {<<"hrv_results", result_id>>} ELSE handed
     /\ UNCHANGED saved
     /\ last' = [Outcome(call, w) EXCEPT !.levels = dict_levels]
     /\ order' = IF w.err = "" THEN [order EXCEPT !.hrv_results = Uniq(Append(@, result_id))]
                 ELSE order
     /\ UNCHANGED <<world, raw, hr_results, hr_ensemble, basics, saliva, disk>>

\* {phase: data_dict[phase] for phase in param}
SelectInline(v, param) ==
  LET names == Uniq(param[1])
  IN IF ~(SeqToSet(names) \subseteq SeqToSet(KeysAt(v.ents, 1))) THEN Fail("KeyError")
     ELSE Ok([v EXCEPT !.ents =
             Flatten([j \in 1..Len(names) |-> Below(v.ents, 1, names[j])])])

\* the rearrangement left out
EnsRearrangeSkipped(w) == w

\* The steps of compute_hr_ensemble that are its own
EnsRearrange(w) == Step(w, "rearrange", rearrange_subject_data_dict(w.v))

EnsSelect(f, w) ==
  IF f.select_phases
  THEN StepP(w, "select_phases", "select_phases",
             SelectInline(w.v, Param(w, "select_phases", Some(KeysAt(w.v.ents, 1)))))
  ELSE w

\* the cut_phases step left out
EnsCutSkipped(f, w) == w

EnsCut(f, w) ==
  IF f.cut_phases THEN Step(w, "cut_phases", cut_phases_to_shortest(w.v)) ELSE w

EnsMerge(f, w, mode) ==
  IF f.merge_dict THEN Step(w, "merge_dict", merge_study_data_dict(w.v, mode)) ELSE w

EnsAddConditions(f, w) ==
  IF f.add_conditions
  THEN StepP(w, "add_conditions", "add_conditions",
             split_subject_conditions(w.v, Param(w, "add_conditions", None)))
  ELSE w

\* compute_hr_ensemble with the subjects merged before the phases are cut
EnsemblePipelineSwapped(study_part, f, params, mode) ==
  The({EnsAddConditions(f, w6) : w6 \in
      {EnsCut(f, w5) : w5 \in
      {EnsMerge(f, w4, mode) : w4 \in
      {EnsSelect(f, w3) : w3 \in
      {EnsRearrange(w2) : w2 \in
      {HrNormalize(f, w1) : w1 \in
      {HrResample(f, w0) : w0 \in
      {Begin(hr_data, study_part, params)}}}}}}}})

\* The body of compute_hr_ensemble up to the store (innermost step first)
EnsemblePipeline(study_part, f, params, mode) ==
  The({EnsAddConditions(f, w6) : w6 \in
      {EnsMerge(f, w5, mode) : w5 \in
      {EnsCut(f, w4) : w4 \in
      {EnsSelect(f, w3) : w3 \in
      {EnsRearrange(w2) : w2 \in
      {HrNormalize(f, w1) : w1 \in
      {HrResample(f, w0) : w0 \in
      {Begin(hr_data, study_part, params)}}}}}}}})

compute_hr_ensemble(ensemble_id, study_part, f, params) ==
  LET call == Call("compute_hr_ensemble", ensemble_id, study_part, f, params)
  IN \E mode \in MergeModes : \E w \in {EnsemblePipeline(study_part, f, params, mode)} :
     /\ hr_ensemble' = IF w.err = ""
                       THEN Put(hr_ensemble, ensemble_id, Entry("", w.v, w.alias))
                       ELSE hr_ensemble
     /\ written' = IF w.err = ""
                   THEN [written EXCEPT !.hr_ensemble = Put(@, ensemble_id, w.v)]
                   ELSE written
     /\ handed' = IF w.err = "" THEN handed \ {<<"hr_ensemble", ensemble_id>>} ELSE handed
     /\ UNCHANGED saved
     /\ last' = Outcome(call, w)
     /\ order' = IF w.err = "" THEN [order EXCEPT !.hr_ensemble = Uniq(Append(@, ensemble_id))]
                 ELSE order
     /\ UNCHANGED <<world, raw, hr_results, hrv_results, basics, saliva, disk>>

\* ------------------------------------------------------------------------
\* Raw data

\* is_study_data_dict: a nested dictionary whose leaves are all tables
is_study_data_dict(v) ==
  \A i \in 1..Len(v.ents) :
     v.ents[i].leaf.kind = "frame" /\ Len(v.ents[i].path) \in {2, 3}

\* add_hr_data that starts the results over (self.hr_results = {})
add_hr_data_resetting(hr, rpeak, study_part) ==
  LET part == IF study_part = None THEN "Study" ELSE study_part[1]
      call == [Call("add_hr_data", "", study_part, NoFlags, None)
                 EXCEPT !.args = <<hr, rpeak>>]
  IN IF ~is_study_data_dict(world[hr])
     THEN /\ last' = Raise(call, "ValidationError", "is_study_data_dict")
          /\ UNCHANGED <<world, raw, caches, basics, saliva, disk, ghost>>
     ELSE /\ hr_data' = Put(hr_data, part, hr)
          /\ rpeak_data' = IF rpeak # None THEN Put(rpeak_data, part, rpeak[1])
                           ELSE rpeak_data
          /\ hr_results' = EmptyMap
          /\ order' = [order EXCEPT !.hr_results = <<>>]
          /\ written' = [written EXCEPT !.hr_results = EmptyMap]
          /\ handed' = {h \in handed : h[1] # "hr_results"}
          /\ UNCHANGED saved
          /\ last' = call
          /\ UNCHANGED <<world, hrv_results, hr_ensemble, basics, saliva, disk>>

\* add_hr_data that stores first and checks afterwards
add_hr_data_storing_first(hr, rpeak, study_part) ==
  LET part == IF study_part = None THEN "Study" ELSE study_part[1]
      call == [Call("add_hr_data", "", study_part, NoFlags, None)
                 EXCEPT !.args = <<hr, rpeak>>]
  IN /\ hr_data' = Put(hr_data, part, hr)
     /\ rpeak_data' = IF rpeak # None THEN Put(rpeak_data, part, rpeak[1])
                      ELSE rpeak_data
     /\ last' = IF ~is_study_data_dict(world[hr])
                THEN Raise(call, "ValidationError", "is_study_data_dict")
                ELSE call
     /\ UNCHANGED <<world, caches, basics, saliva, disk, ghost>>

add_hr_data(hr, rpeak, study_part) ==
  LET part == IF study_part = None THEN "Study" ELSE study_part[1]
      call == [Call("add_hr_data", "", study_part, NoFlags, None)
                 EXCEPT !.args = <<hr, rpeak>>]
  IN IF ~is_study_data_dict(world[hr])
     THEN /\ last' = Raise(call, "ValidationError", "is_study_data_dict")
          /\ UNCHANGED <<world, raw, caches, basics, saliva, disk, ghost>>
     ELSE /\ hr_data' = Put(hr_data, part, hr)
          /\ rpeak_data' = IF rpeak # None THEN Put(rpeak_data, part, rpeak[1])
                           ELSE rpeak_data
          /\ last' = call
          /\ UNCHANGED <<world, caches, basics, saliva, disk, ghost>>

\* ------------------------------------------------------------------------
\* Results added and read

add_hr_results(result_id, results) ==
  /\ hr_results' = Put(hr_results, result_id, Entry(results, EmptyVal, ""))
  /\ order' = [order EXCEPT !.hr_results = Uniq(Append(@, result_id))]
  /\ written' = [written EXCEPT !.hr_results = Put(@, result_id, world[results])]
  /\ handed' = handed \ {<<"hr_results", result_id>>}
  /\ UNCHANGED saved
  /\ last' = Call("add_hr_results", result_id, None, NoFlags, None)
  /\ UNCHANGED <<world, raw, hrv_results, hr_ensemble, basics, saliva, disk>>

\* add_hrv_results assigning into self.hr_results
add_hrv_results_pasted(result_id, results) ==
  /\ hr_results' = Put(hr_results, result_id, Entry(results, EmptyVal, ""))
  /\ order' = [order EXCEPT !.hr_results = Uniq(Append(@, result_id))]
  /\ written' = [written EXCEPT !.hr_results = Put(@, result_id, world[results])]
  /\ handed' = handed \ {<<"hr_results", result_id>>}
  /\ UNCHANGED saved
  /\ last' = Call("add_hrv_results", result_id, None, NoFlags, None)
  /\ UNCHANGED <<world, raw, hrv_results, hr_ensemble, basics, saliva, disk>>

add_hrv_results(result_id, results) ==
  /\ hrv_results' = Put(hrv_results, result_id, Entry(results, EmptyVal, ""))
  /\ order' = [order EXCEPT !.hrv_results = Uniq(Append(@, result_id))]
  /\ written' = [written EXCEPT !.hrv_results = Put(@, result_id, world[results])]
  /\ handed' = handed \ {<<"hrv_results", result_id>>}
  /\ UNCHANGED saved
  /\ last' = Call("add_hrv_results", result_id, None, NoFlags, None)
  /\ UNCHANGED <<world, raw, hr_results, hr_ensemble, basics, saliva, disk>>

add_hr_ensemble(ensemble_id, ensemble) ==
  /\ hr_ensemble' = Put(hr_ensemble, ensemble_id, Entry(ensemble, EmptyVal, ""))
  /\ order' = [order EXCEPT !.hr_ensemble = Uniq(Append(@, ensemble_id))]
  /\ written' = [written EXCEPT !.hr_ensemble = Put(@, ensemble_id, world[ensemble])]
  /\ handed' = handed \ {<<"hr_ensemble", ensemble_id>>}
  /\ UNCHANGED saved
  /\ last' = Call("add_hr_ensemble", ensemble_id, None, NoFlags, None)
  /\ UNCHANGED <<world, raw, hr_results, hrv_results, basics, saliva, disk>>

\* cache.get(id, None): the stored object itself is returned
Got(cache, id) == IF id \in DOMAIN cache THEN Some(Read(cache[id])) ELSE None

Getter(op, c, cache, id) ==
  /\ handed' = IF id \in DOMAIN cache THEN handed \cup {<<c, id>>} ELSE handed
  /\ UNCHANGED saved
  /\ last' = [Call(op, id, None, NoFlags, None) EXCEPT !.ret = Got(cache, id)]
  /\ UNCHANGED <<world, raw, caches, basics, saliva, disk, written>>

get_hr_results(result_id) ==
  Getter("get_hr_results", "hr_results", hr_results, result_id)

get_hrv_results(result_id) ==
  Getter("get_hrv_results", "hrv_results", hrv_results, result_id)

get_hr_ensemble(ensemble_id) ==
  Getter("get_hr_ensemble", "hr_ensemble", hr_ensemble, ensemble_id)

\* hr_ensemble_plot / hr_mean_plot: self.<cache>[id], handed to the plotting layer
hr_ensemble_plot(ensemble_id) ==
  LET call == Call("hr_ensemble_plot", ensemble_id, None, NoFlags, None)
  IN /\ last' = IF ensemble_id \in DOMAIN hr_ensemble THEN call
                ELSE Raise(call, "KeyError", "hr_ensemble")
     /\ UNCHANGED <<world, raw, caches, basics, saliva, disk, ghost>>

hr_mean_plot(result_id) ==
  LET call == Call("hr_mean_plot", result_id, None, NoFlags, None)
  IN /\ last' = IF result_id \in DOMAIN hr_results THEN call
                ELSE Raise(call, "KeyError", "hr_results")
     /\ UNCHANGED <<world, raw, caches, basics, saliva, disk, ghost>>

\* ------------------------------------------------------------------------
\* The caller changes, in place, an object it holds: it drops the last leaf
\* (del data[subject][phase], df.drop(..., inplace=True))

Edited(v) == [v EXCEPT !.ents = SubSeq(@, 1, Len(@) - 1)]

EntriesOf(cache) == {cache[k] : k \in DOMAIN cache}

\* the caller's objects the instance refers to
Referred ==
  {hr_data[k] : k \in DOMAIN hr_data} \cup {rpeak_data[k] : k \in DOMAIN rpeak_data}
  \cup UNION {{e.name, e.alias} :
              e \in EntriesOf(hr_results) \cup EntriesOf(hrv_results)
                    \cup EntriesOf(hr_ensemble)}

CallerEdits(o) ==
  /\ o \in Referred /\ o # ""
  /\ world[o].ents # <<>>
  /\ world' = [world EXCEPT ![o] = Edited(@)]
  /\ last' = Call("caller_edits", o, None, NoFlags, None)
  /\ UNCHANGED <<raw, caches, basics, saliva, disk, ghost>>

\* the same on an object a getter returned
CallerEditsReturned(c, id) ==
  LET cache == CASE c = "hr_results" -> hr_results
                 [] c = "hrv_results" -> hrv_results
                 [] OTHER -> hr_ensemble
  IN /\ <<c, id>> \in handed
     /\ cache[id].name = "" /\ cache[id].alias = ""
     /\ cache[id].v.ents # <<>>
     /\ hr_results' = IF c = "hr_results"
                      THEN [hr_results EXCEPT ![id].v = Edited(@)] ELSE hr_results
     /\ hrv_results' = IF c = "hrv_results"
                       THEN [hrv_results EXCEPT ![id].v = Edited(@)] ELSE hrv_results
     /\ hr_ensemble' = IF c = "hr_ensemble"
                       THEN [hr_ensemble EXCEPT ![id].v = Edited(@)] ELSE hr_ensemble
     /\ last' = Call("caller_edits", id, None, NoFlags, None)
     /\ UNCHANGED <<world, raw, order, basics, saliva, disk, ghost>>

\* ------------------------------------------------------------------------
\* Export and persistence

\* the identifiers as character sequences
Chars(id) == CASE id = "r1" -> <<"r", "1">>
               [] id = "r2" -> <<"r", "2">>
               [] OTHER -> <<id>>

\* str.lower() and str.replace(" ", "_") on the characters in use
Lower(c) == CASE c = "M" -> "m" [] c = "S" -> "s" [] OTHER -> c

Slug(chars) == [i \in 1..Len(chars) |->
                  IF Lower(chars[i]) = " " THEN "_" ELSE Lower(chars[i])]

\* "{}_{}.csv".format(prefix, key)
FileName(prefix, key) == prefix \o <<"_">> \o Chars(key) \o <<".", "c", "s", "v">>

\* the directories that exist
Dirs == {"out"}

RECURSIVE ExportLoop(_, _, _, _, _)
\* for key, data in result_dict.items(): data.to_csv(base_path / file_name)
\* A dictionary has no to_csv: the loop stops there with an AttributeError.
ExportLoop(cache, keys, base_path, prefix, csv) ==
  IF keys = <<>> THEN [err |-> "", csv |-> csv]
  ELSE LET data == Read(cache[Head(keys)])
       IN IF data.shape # "table" THEN [err |-> "AttributeError", csv |-> csv]
          ELSE ExportLoop(cache, Tail(keys), base_path, prefix,
                          Put(csv, <<base_path, FileName(prefix, Head(keys))>>, data))

\* an export that does not look whether base_path is a directory
export_results_unchecked(op, base_path, prefix, cache, keys) ==
  LET call == [Call(op, "", None, NoFlags, None) EXCEPT !.base_path = base_path,
                                                         !.prefix = prefix]
      pre == IF prefix = None THEN Slug(name) ELSE prefix[1]
      r == ExportLoop(cache, keys, base_path, pre, files.csv)
  IN /\ files' = [files EXCEPT !.csv = r.csv]
     /\ last' = IF r.err = "" THEN call ELSE Raise(call, r.err, "to_csv")
     /\ UNCHANGED <<world, raw, caches, basics, saliva, loaded, ghost>>

export_results(op, base_path, prefix, cache, keys) ==
  LET call == [Call(op, "", None, NoFlags, None) EXCEPT !.base_path = base_path,
                                                         !.prefix = prefix]
      pre == IF prefix = None THEN Slug(name) ELSE prefix[1]
      r == ExportLoop(cache, keys, base_path, pre, files.csv)
  IN IF base_path \notin Dirs
     THEN /\ last' = Raise(call, "ValueError", "base_path")
          /\ UNCHANGED <<world, raw, caches, basics, saliva, disk, ghost>>
     ELSE /\ files' = [files EXCEPT !.csv = r.csv]
          /\ last' = IF r.err = "" THEN call ELSE Raise(call, r.err, "to_csv")
          /\ UNCHANGED <<world, raw, caches, basics, saliva, loaded, ghost>>

export_hr_results(base_path, prefix) ==
  export_results("export_hr_results", base_path, prefix, hr_results, order.hr_results)

export_hrv_results(base_path, prefix) ==
  export_results("export_hrv_results", base_path, prefix, hrv_results,
                 order.hrv_results)

\* a Python sequence: a list or a tuple
PySeq(tuple, items) == [tuple |-> tuple, items |-> items]

\* json.dump followed by json.load: a tuple comes back as a list
JsonSeq(x) == PySeq(FALSE, x.items)

\* to_file that also exports saliva_types
to_file_with_types(file_path) ==
  LET call == Call("to_file", file_path.stem, None, NoFlags, None)
  IN IF file_path.ext # ".json"
     THEN /\ last' = Raise(call, "FileExtensionError", "file_path")
          /\ UNCHANGED <<world, raw, caches, basics, saliva, disk, ghost>>
     ELSE /\ files' = [files EXCEPT !.json = Put(@, file_path,
                         [name |-> name, structure |-> structure,
                          test_times |-> JsonSeq(test_times),
                          saliva_types |-> saliva_types])]
          /\ saved' = Put(saved, file_path,
                          [name |-> name, structure |-> structure,
                           test_times |-> test_times])
          /\ last' = call
          /\ UNCHANGED <<world, raw, caches, basics, saliva, loaded, written, handed>>

to_file(file_path) ==
  LET call == [Call("to_file", file_path.stem, None, NoFlags, None)
                 EXCEPT !.args = <<file_path>>]
  IN IF file_path.ext # ".json"
     THEN /\ last' = Raise(call, "FileExtensionError", "file_path")
          /\ UNCHANGED <<world, raw, caches, basics, saliva, disk, ghost>>
     ELSE /\ files' = [files EXCEPT !.json = Put(@, file_path,
                         [name |-> name, structure |-> structure,
                          test_times |-> JsonSeq(test_times)])]
          /\ saved' = Put(saved, file_path,
                          [name |-> name, structure |-> structure,
                           test_times |-> test_times])
          /\ last' = call
          /\ UNCHANGED <<world, raw, caches, basics, saliva, loaded, written, handed>>

\* a constructor that ignores the test_times it is given
Constructed_default_times(n, s, t) ==
  [name |-> n, structure |-> s,
   test_times |-> PySeq(FALSE, <<0, 0>>),
   saliva_types |-> Some(<<>>), sample_times |-> <<>>, saliva_data |-> <<>>,
   hr_data |-> <<>>, rpeak_data |-> <<>>,
   hr_results |-> <<>>, hrv_results |-> <<>>, hr_ensemble |-> <<>>]

\* cls(**json_dict): a new instance
Constructed(n, s, t) ==
  [name |-> n, structure |-> s,
   test_times |-> IF t = None THEN PySeq(FALSE, <<0, 0>>) ELSE t[1],
   saliva_types |-> Some(<<>>), sample_times |-> <<>>, saliva_data |-> <<>>,
   hr_data |-> <<>>, rpeak_data |-> <<>>,
   hr_results |-> <<>>, hrv_results |-> <<>>, hr_ensemble |-> <<>>]

from_file(file_path) ==
  LET call == [Call("from_file", file_path.stem, None, NoFlags, None)
                 EXCEPT !.args = <<file_path>>]
  IN /\ IF file_path.ext # ".json"
        THEN /\ last' = Raise(call, "FileExtensionError", "file_path")
             /\ UNCHANGED loaded
        ELSE IF file_path \notin DOMAIN files.json
        THEN /\ last' = Raise(call, "FileNotFoundError", "open")
             /\ UNCHANGED loaded
        ELSE /\ loaded' = Some(Constructed(files.json[file_path].name,
                                           files.json[file_path].structure,
                                           Some(files.json[file_path].test_times)))
             /\ last' = call
     /\ UNCHANGED <<world, raw, caches, basics, saliva, files, ghost>>

\* ------------------------------------------------------------------------
\* Saliva data

\* a saliva table: raw, mean/se or neither; n samples per subject; its
\* "time" column, None without one
SalivaTable(kind, n, time) == [kind |-> kind, n |-> n, time |-> time]

\* an argument that is a dictionary (type -> value) or one value for all types
PerType(items) == [dict |-> TRUE, items |-> items]
Single(x) == [dict |-> FALSE, items |-> <<<<"", x>>>>]

ItemKeys(items) == [i \in 1..Len(items) |-> items[i][1]]

ItemAt(items, key) ==
  LET hits == SelectSeq(items, LAMBDA it : it[1] = key)
  IN hits[Len(hits)][2]

\* {key: x for key in types}
Spread(arg, types) ==
  IF arg.dict THEN arg.items
  ELSE [i \in 1..Len(types) |-> <<types[i], arg.items[1][2]>>]

\* dict.update(items)
Update(d, items) ==
  [k \in DOMAIN d \cup SeqToSet(ItemKeys(items)) |->
     IF k \in SeqToSet(ItemKeys(items)) THEN ItemAt(items, k) ELSE d[k]]

\* the sample times of one type: the given ones, else the table's time
\* column; relative to the test start, made absolute
TimesOf(table, given, tt) ==
  LET rel == IF given # None THEN given ELSE table.time
  IN IF rel = None THEN Fail("ConfigurationError")
     ELSE [err |-> "", v |-> [i \in 1..Len(rel[1]) |-> rel[1][i] + tt.items[1]]]

\* _get_sample_times(saliva_data, sample_times, test_times).  Whether it
\* also rejects sample times that do not match the sample count (strict), or
\* leaves that to _check_sample_times_match, is left open.
get_sample_times(data, times, tt, strict) ==
  LET keys == ItemKeys(data)
      T(i) == TimesOf(data[i][2], ItemAt(times, keys[i]), tt)
      R(i) == IF keys[i] \notin SeqToSet(ItemKeys(times)) THEN Fail("KeyError")
              ELSE IF T(i).err = "" /\ strict /\ Len(T(i).v) # data[i][2].n
                   THEN Fail("ValidationError")
                   ELSE T(i)
      failed == {i \in 1..Len(keys) : R(i).err # ""}
  IN IF failed # {}
     THEN [err |-> R(CHOOSE i \in failed : \A j \in failed : i <= j).err,
           items |-> <<>>]
     ELSE [err |-> "", items |-> [i \in 1..Len(keys) |-> <<keys[i], R(i).v>>]]

\* BaseProtocol._add_saliva_data on a dictionary: every table is a raw or a
\* mean/se saliva table and has as many samples as there are sample times
check_saliva_data(data, times) ==
  IF \E i \in 1..Len(data) :
       \/ data[i][2].kind \notin {"raw", "mean_se"}
       \/ data[i][2].n # Len(times[data[i][1]])
  THEN "ValidationError" ELSE ""

\* self.test_times once the call has assigned its argument
TestTimesSet(tt) == IF tt # None THEN tt[1] ELSE test_times

\* the test times of the instance as they were before the call
TestTimesBefore(tt) == test_times

\* the self.test_times that _get_sample_times is given
TestTimesPassed(tt) == TestTimesSet(tt)

add_saliva_data(data, saliva_type, times, tt) ==
  LET call == [Call("add_saliva_data", "", None, NoFlags, None)
                 EXCEPT !.args = <<data, saliva_type, times, tt>>]
      types == IF data # None /\ data[1].dict THEN Some(ItemKeys(data[1].items))
               ELSE saliva_type
  IN /\ saliva_types' = types
     /\ test_times' = TestTimesSet(tt)
     /\ IF data = None
        THEN /\ last' = call
             /\ UNCHANGED <<sample_times, saliva_data>>
        ELSE IF types = None
        THEN /\ last' = Raise(call, "TypeError", "saliva_types")
             /\ UNCHANGED <<sample_times, saliva_data>>
        ELSE \E strict \in BOOLEAN :
             \E st \in {get_sample_times(Spread(data[1], types[1]),
                                         Spread(times, types[1]),
                                         TestTimesPassed(tt), strict)} :
               IF st.err # ""
               THEN /\ last' = Raise(call, st.err, "_get_sample_times")
                    /\ UNCHANGED <<sample_times, saliva_data>>
               ELSE /\ sample_times' = Update(sample_times, st.items)
                    /\ IF check_saliva_data(Spread(data[1], types[1]),
                                            Update(sample_times, st.items)) # ""
                       THEN /\ last' = Raise(call, "ValidationError", "_add_saliva_data")
                            /\ UNCHANGED saliva_data
                       ELSE /\ last' = call
                            /\ saliva_data' = Update(saliva_data,
                                                     Spread(data[1], types[1]))
     /\ UNCHANGED <<world, raw, caches, name, structure, disk, ghost>>

\* ------------------------------------------------------------------------
\* The caller's objects at the start

Dict2(s1p1, s1p2, s2p1, s2p2) ==
  Val("subject_outer", <<>>, 1,
      <<Ent(<<"s1", "p1">>, s1p1), Ent(<<"s1", "p2">>, s1p2),
        Ent(<<"s2", "p1">>, s2p1), Ent(<<"s2", "p2">>, s2p2)>>)

World0 ==
  [d1 |-> Dict2(Frame(6, 5), Frame(5, 4), Frame(4, 3), Frame(7, 6)),
   d2 |-> Val("subject_outer", <<>>, 1, <<Ent(<<"s1", "p1">>, Frame(3, 2))>>),
   dbad |-> Val("subject_outer", <<>>, 1,
                <<Ent(<<"s1", "p1">>, Frame(3, 2)), Ent(<<"s1", "p2">>, Other)>>),
   k1 |-> Dict2(Frame(5, 5), Frame(4, 4), Frame(3, 3), Frame(6, 6)),
   k0 |-> Dict2(Frame(5, 5), Frame(0, 4), Frame(3, 3), Frame(6, 6)),
   kflat |-> Val("subject_outer", <<>>, 1,
                 <<Ent(<<"s1">>, Frame(5, 5)), Ent(<<"s2">>, Frame(3, 3))>>),
   kbad |-> Val("subject_outer", <<>>, 1,
                <<Ent(<<"s1", "p1">>, Frame(5, 5)), Ent(<<"s1", "p2">>, Other),
                  Ent(<<"s2", "p1">>, Frame(0, 3))>>),
   kdeep |-> Val("subject_outer", <<>>, 1,
                 <<Ent(<<"s1", "p1", "a">>, Frame(5, 5)),
                   Ent(<<"s1", "p1", "b">>, Frame(4, 4)),
                   Ent(<<"s2", "p1", "a">>, Frame(3, 3))>>),
   t1 |-> Val("table", <<"subject", "phase">>, 1,
              <<Ent(<<"s1", "p1">>, Frame(1, 0)), Ent(<<"s2", "p1">>, Frame(1, 0))>>),
   e1 |-> Val("merged", <<>>, 0,
              <<Ent(<<"p1">>, [Frame(3, 3) EXCEPT !.cols = <<"s1", "s2">>])>>)]

\* the instance after construction, the caller holding the objects w
InitWith(w) ==
  /\ world = w
  /\ hr_data = EmptyMap /\ rpeak_data = EmptyMap
  /\ hr_results = EmptyMap /\ hrv_results = EmptyMap /\ hr_ensemble = EmptyMap
  /\ order = [hr_results |-> <<>>, hrv_results |-> <<>>, hr_ensemble |-> <<>>]
  /\ name = <<"M", " ", "S">>
  /\ structure \in {None, Some(<<[path |-> <<"Before">>, dur |-> None],
                                 [path |-> <<"TSST", "Talk">>, dur |-> Some(300)]>>)}
  /\ test_times = PySeq(FALSE, <<0, 0>>)
  /\ saliva_types = Some(<<>>)
  /\ sample_times = EmptyMap /\ saliva_data = EmptyMap
  /\ files = [csv |-> EmptyMap, json |-> EmptyMap]
  /\ loaded = None
  /\ handed = {}
  /\ saved = EmptyMap
  /\ written = [hr_results |-> EmptyMap, hrv_results |-> EmptyMap,
                hr_ensemble |-> EmptyMap]
  /\ last = Call("__init__", "", None, NoFlags, None)
  /\ nops = 0

Init == InitWith(World0)

\* ------------------------------------------------------------------------
\* Arguments the calls are made with

Ids == {"r1", "r2"}
Parts == {None, Some("Part2")}

F(on) == [k \in DOMAIN NoFlags |-> k \in on]

CondsAll == <<<<"s1", "ctrl">>, <<"s2", "stress">>>>
CondsS1 == <<<<"s1", "ctrl">>>>
Subphases == <<<<"a", 2>>, <<"b", 3>>, <<"c", 2>>>>

\* compute_hr_results: the defaults; every step off; a failing last step
HrArgs ==
  {[f |-> F({"resample_sec", "mean_per_subject"}), params |-> None],
   [f |-> F({}), params |-> None],
   [f |-> F({"mean_per_subject", "add_conditions"}),
    params |-> Some([NoParams EXCEPT !.add_conditions = Some(CondsS1)])]}

\* compute_hrv_results: the defaults; an unknown phase selected
HrvArgs ==
  {[f |-> F({}), params |-> None],
   [f |-> F({"select_phases"}),
    params |-> Some([NoParams EXCEPT !.select_phases = Some(<<"p1", "px">>)])]}

\* compute_hr_ensemble: the defaults with a reference phase; params omitted
EnsembleArgs ==
  {[f |-> F({"resample_sec", "normalize_to", "cut_phases", "merge_dict"}),
    params |-> Some([NoParams EXCEPT !.normalize_to = Some("p1")])],
   [f |-> F({"resample_sec", "normalize_to", "cut_phases", "merge_dict"}),
    params |-> None]}

Tick == nops < MaxOps /\ nops' = nops + 1

AddHrData ==
  /\ Tick
  /\ \E a \in {<<"d1", Some("k1"), None>>, <<"d2", Some("k0"), Some("Part2")>>,
               <<"dbad", None, None>>} :
        add_hr_data(a[1], a[2], a[3])

ComputeHrResults ==
  /\ Tick
  /\ \E id \in Ids, part \in Parts, a \in HrArgs :
        compute_hr_results(id, part, a.f, a.params)

ComputeHrvResults ==
  /\ Tick
  /\ \E id \in Ids, part \in Parts, a \in HrvArgs :
        compute_hrv_results(id, part, a.f, None, a.params)

ComputeHrEnsemble ==
  /\ Tick
  /\ \E id \in Ids, part \in Parts, a \in EnsembleArgs :
        compute_hr_ensemble(id, part, a.f, a.params)

AddResults ==
  /\ Tick
  /\ \E id \in Ids :
        \/ add_hr_results(id, "t1")
        \/ add_hrv_results(id, "t1")
        \/ add_hr_ensemble(id, "e1")

GetResults ==
  /\ Tick
  /\ \E id \in Ids :
        \/ get_hr_results(id)
        \/ get_hrv_results(id)
        \/ get_hr_ensemble(id)

Export ==
  /\ Tick
  /\ \E base_path \in {"out", "nowhere"}, prefix \in {None, Some(<<"x">>)} :
        \/ export_hr_results(base_path, prefix)
        \/ export_hrv_results(base_path, prefix)

Persist ==
  /\ Tick
  /\ \E file_path \in {[stem |-> "p", ext |-> ".json"], [stem |-> "p", ext |-> ".txt"]} :
        \/ to_file(file_path)
        \/ from_file(file_path)

Plot ==
  /\ Tick
  /\ \E id \in Ids : hr_ensemble_plot(id) \/ hr_mean_plot(id)

AddSalivaData ==
  /\ Tick
  /\ \E a \in {<<Some(Single(SalivaTable("raw", 3, None))), Some(<<"cortisol">>),
                 Single(Some(<<-1, 0, 10>>)), Some(PySeq(FALSE, <<0, 30>>))>>,
               <<Some(Single(SalivaTable("raw", 3, None))), Some(<<"cortisol">>),
                 Single(Some(<<-1, 0>>)), None>>} :
        add_saliva_data(a[1], a[2], a[3], a[4])

Caller ==
  /\ Tick
  /\ \/ \E o \in DOMAIN World0 : CallerEdits(o)
     \/ \E c \in {"hr_results", "hrv_results", "hr_ensemble"}, id \in Ids :
           CallerEditsReturned(c, id)

Next ==
  \/ AddHrData \/ ComputeHrResults \/ ComputeHrvResults \/ ComputeHrEnsemble
  \/ AddResults \/ GetResults \/ Export \/ Persist \/ Plot \/ AddSalivaData
  \/ Caller

Spec == Init /\ [][Next]_vars

\* ------------------------------------------------------------------------
\* One compute_* call on freshly loaded data, under every combination of its
\* step flags

SubphasesShort == <<<<"a", 1>>, <<"b", 2>>>>

\* study_part omitted, the default's name spelled out, another part
PartsGiven == {None, Some("Study"), Some("Part2")}

\* params with a usable value under every key
ParamsFull ==
  [normalize_to |-> Some("p1"), select_phases |-> Some(<<"p2", "p1">>),
   split_into_subphases |-> Some(SubphasesShort),
   mean_per_subject |-> Some(<<"subject", "phase", "subphase">>),
   add_conditions |-> Some(CondsAll)]

\* None; the empty dictionary; usable values; one phase selected; an unknown
\* phase selected and subphases longer than the data; a subject without a
\* condition
ParamsGiven ==
  {None, Some(NoParams), Some(ParamsFull),
   Some([ParamsFull EXCEPT !.select_phases = Some(<<"p2">>)]),
   Some([ParamsFull EXCEPT !.select_phases = Some(<<"p1", "px">>),
                           !.split_into_subphases = Some(Subphases),
                           !.mean_per_subject = None]),
   Some([ParamsFull EXCEPT !.normalize_to = Some("px"),
                           !.add_conditions = Some(CondsS1)])}

HrFlags == {"resample_sec", "normalize_to", "select_phases",
            "split_into_subphases", "mean_per_subject", "add_conditions"}

HrvFlags == {"select_phases", "split_into_subphases", "add_conditions"}

EnsembleFlags == {"resample_sec", "normalize_to", "select_phases",
                  "cut_phases", "merge_dict", "add_conditions"}

LevelsGiven ==
  {None, Some(<<"subject">>), Some(<<"subject", "phase">>),
   Some(<<"subject", "phase", "subphase">>)}

Load ==
  /\ nops = 0 /\ nops' = 1
  /\ \E a \in {<<"d1", Some("k1"), None>>, <<"d1", Some("k0"), None>>,
               <<"d1", Some("kflat"), None>>, <<"d1", Some("kdeep"), None>>,
               <<"d1", Some("kbad"), None>>,
               <<"d2", None, Some("Part2")>>, <<"d2", None, Some("Study")>>} :
        add_hr_data(a[1], a[2], a[3])

RunHr ==
  /\ nops = 1 /\ nops' = 2
  /\ \E part \in PartsGiven, on \in SUBSET HrFlags, params \in ParamsGiven :
        compute_hr_results("r1", part, F(on), params)

RunHrv ==
  /\ nops = 1 /\ nops' = 2
  /\ \E part \in PartsGiven, on \in SUBSET HrvFlags, levels \in LevelsGiven,
        params \in ParamsGiven :
        compute_hrv_results("r1", part, F(on), levels, params)

RunEnsemble ==
  /\ nops = 1 /\ nops' = 2
  /\ \E part \in PartsGiven, on \in SUBSET EnsembleFlags, params \in ParamsGiven :
        compute_hr_ensemble("r1", part, F(on), params)

NextPipe == Load \/ RunHr \/ RunHrv \/ RunEnsemble

SpecPipe == Init /\ [][NextPipe]_vars

\* ------------------------------------------------------------------------
\* Sequences of add_saliva_data calls

RawTable(n) == Some(Single(SalivaTable("raw", n, None)))

Cortisol5 ==
  <<RawTable(5), Some(<<"cortisol">>), Single(Some(<<-1, 0, 10, 20, 30>>)),
    Some(PySeq(FALSE, <<0, 900>>))>>

\* one table with its type and times, with and without test times; too few
\* sample times; a dictionary with times in the tables, one of them not a
\* saliva table; a dictionary of two types with a dictionary of times; times
\* that cannot be inferred; a table without a type; no data
SalivaArgs ==
  {Cortisol5,
   <<RawTable(3), Some(<<"cortisol">>), Single(Some(<<-1, 0, 10>>)),
     Some(PySeq(FALSE, <<5, 30>>))>>,
   <<RawTable(3), Some(<<"cortisol">>), Single(Some(<<-1, 0>>)), None>>,
   <<Some(PerType(<<<<"cortisol", SalivaTable("raw", 2, Some(<<0, 10>>))>>,
                    <<"amylase", SalivaTable("other", 2, Some(<<0, 10>>))>>>>)),
     None, Single(None), None>>,
   <<Some(PerType(<<<<"cortisol", SalivaTable("raw", 3, None)>>,
                    <<"amylase", SalivaTable("mean_se", 2, None)>>>>)),
     None,
     PerType(<<<<"cortisol", Some(<<-1, 0, 10>>)>>, <<"amylase", Some(<<0, 10>>)>>>>),
     None>>,
   <<RawTable(3), Some(<<"amylase">>), Single(None), None>>,
   <<RawTable(3), Some(<<"amylase">>), Single(Some(<<0, 1, 2>>)), None>>,
   <<RawTable(3), None, Single(Some(<<0, 1, 2>>)), None>>,
   <<None, Some(<<"il6">>), Single(None), None>>}

SalivaCall ==
  /\ Tick
  /\ \E a \in SalivaArgs : add_saliva_data(a[1], a[2], a[3], a[4])

SpecSaliva == Init /\ [][SalivaCall]_vars

\* ------------------------------------------------------------------------
\* Questionnaire scores: biopsykit.questionnaires.utils.invert

MaxInverts == 2

\* a Series, a DataFrame or another array of integer scores: the column
\* labels and, per column, the values
Scores(kind, labels, vals) == [kind |-> kind, labels |-> labels, vals |-> vals]

\* score_range[1] - x, the lower end forgotten
InvertValue_from_top(x, score_range) == score_range[2] - x

\* score_range[1] - x + score_range[0]   (score_range is indexed from 1 here)
InvertValue(x, score_range) == score_range[2] - x + score_range[1]

\* the expression applied to the columns `which` of data
InvertColumns(data, score_range, which) ==
  [data EXCEPT !.vals = Tuple([c \in 1..Len(data.vals) |->
      IF c \in which
      THEN Tuple([i \in 1..Len(data.vals[c]) |-> InvertValue(data.vals[c][i], score_range)])
      ELSE data.vals[c]])]

\* the columns that cols selects: by label (loc) or by position from 0 (iloc)
ColumnsOf(data, cols) ==
  IF cols = None THEN 1..Len(data.vals)
  ELSE IF cols[1].by = "label"
       THEN {c \in 1..Len(data.labels) : data.labels[c] \in SeqToSet(cols[1].of)}
       ELSE {p + 1 : p \in SeqToSet(cols[1].of)}

\* the exception the column selection raises, "" if none
ColumnsError(data, cols) ==
  IF cols = None THEN ""
  ELSE IF cols[1].by = "label"
       THEN IF SeqToSet(cols[1].of) \subseteq SeqToSet(data.labels) THEN "" ELSE "KeyError"
       ELSE IF \A p \in SeqToSet(cols[1].of) : p < Len(data.vals) THEN "" ELSE "IndexError"

\* the key under which the caller keeps what call number n returned
Kept(n) == CASE n = 0 -> "r1" [] n = 1 -> "r2" [] n = 2 -> "r3" [] OTHER -> "r4"

\* invert(data, score_range, cols, inplace) on the caller's object o
invert(o, score_range, cols, inplace) ==
  LET data == world[o]
      call == [Call("invert", o, None, NoFlags, None)
                 EXCEPT !.args = <<data, score_range, cols, inplace>>]
  IN /\ IF inplace
        THEN IF data.kind = "frame"
             THEN IF ColumnsError(data, cols) # ""
                  THEN /\ last' = Raise(call, ColumnsError(data, cols), "cols")
                       /\ UNCHANGED world
                  ELSE /\ world' = [world EXCEPT ![o] =
                             InvertColumns(data, score_range, ColumnsOf(data, cols))]
                       /\ last' = call
             ELSE IF data.kind = "series"
             THEN /\ world' = [world EXCEPT ![o] =
                        InvertColumns(data, score_range, 1..Len(data.vals))]
                  /\ last' = call
             ELSE /\ last' = Raise(call, "ValueError", "data")
                  /\ UNCHANGED world
        ELSE /\ world' = Put(world, Kept(nops),
                             InvertColumns(data, score_range, 1..Len(data.vals)))
             /\ last' = [call EXCEPT !.ret =
                            Some(InvertColumns(data, score_range, 1..Len(data.vals)))]
     /\ UNCHANGED <<raw, caches, basics, saliva, disk, ghost>>

ScoreValues == 0..4

\* the caller's scores at the start: every series of two scores, frames of
\* two columns, an array
ScoresGiven ==
  {Scores("series", <<"a">>, <<<<x, y>>>>) : x, y \in ScoreValues}
  \cup {Scores("frame", <<"a", "b">>, <<<<x>>, <<y>>>>) : x, y \in {1, 2, 4}}
  \cup {Scores("array", <<>>, <<<<1, 4>>>>)}

ScoreRanges == {<<1, 4>>, <<0, 3>>}

ColsGiven == {None, Some([by |-> "label", of |-> <<"b">>]),
              Some([by |-> "place", of |-> <<0>>]),
              Some([by |-> "place", of |-> <<2>>])}

InitScores == \E x \in ScoresGiven : InitWith([q |-> x])

Invert ==
  /\ nops < MaxInverts /\ nops' = nops + 1
  /\ \E o \in DOMAIN world, score_range \in ScoreRanges, cols \in ColsGiven,
        inplace \in BOOLEAN :
        invert(o, score_range, cols, inplace)

SpecInvert == InitScores /\ [][Invert]_vars

\* ------------------------------------------------------------------------
\* Sequences of add_hr_data calls

AddRaw ==
  /\ Tick
  /\ \E hr \in {"d1", "d2", "dbad"}, rpeak \in {None, Some("k1"), Some("k0")},
        part \in PartsGiven :
        add_hr_data(hr, rpeak, part)

SpecRaw == Init /\ [][AddRaw]_vars

\* ------------------------------------------------------------------------
\* Properties

ComputeOps == {"compute_hr_results", "compute_hrv_results", "compute_hr_ensemble"}

CacheNames == {"hr_results", "hrv_results", "hr_ensemble"}

Cache(c) == CASE c = "hr_results" -> hr_results
              [] c = "hrv_results" -> hrv_results
              [] OTHER -> hr_ensemble

\* the cache an operation writes, "" if it writes none
Target(op) ==
  CASE op \in {"compute_hr_results", "add_hr_results"} -> "hr_results"
    [] op \in {"compute_hrv_results", "add_hrv_results"} -> "hrv_results"
    [] op \in {"compute_hr_ensemble", "add_hr_ensemble"} -> "hr_ensemble"
    [] OTHER -> ""

\* The steps of each compute_* in the order the specification gives them, each
\* with the flag that enables it ("" for a step that always runs)
St(flag, step) == [flag |-> flag, step |-> step]

HrOrder ==
  <<St("resample_sec", "resample"), St("normalize_to", "normalize"),
    St("select_phases", "select_phases"),
    St("split_into_subphases", "split_into_subphases"),
    St("mean_per_subject", "mean_per_subject"),
    St("add_conditions", "add_conditions")>>

HrvOrder ==
  <<St("select_phases", "select_phases"),
    St("split_into_subphases", "split_into_subphases"),
    St("", "hrv"), St("", "droplevel"), St("add_conditions", "add_conditions")>>

EnsembleOrder ==
  <<St("resample_sec", "resample"), St("normalize_to", "normalize"),
    St("", "rearrange"), St("select_phases", "select_phases"),
    St("cut_phases", "cut_phases"), St("merge_dict", "merge_dict"),
    St("add_conditions", "add_conditions")>>

OrderOf(op) == CASE op = "compute_hr_results" -> HrOrder
                 [] op = "compute_hrv_results" -> HrvOrder
                 [] OTHER -> EnsembleOrder

\* the steps a call with the flags f is to run, in order
Enabled(steps, f) ==
  LET on == SelectSeq(steps, LAMBDA s : s.flag = "" \/ f[s.flag])
  IN [i \in 1..Len(on) |-> on[i].step]

\* the call ran exactly its enabled steps, in order
Completed(call) == call.trace = Enabled(OrderOf(call.op), call.flags)

\* C1: a compute_* call that raises, at whatever step, leaves its cache (and
\* the other two) exactly as before: no entry added, none overwritten, none
\* removed; a cache changes only in a call that completed every enabled step.
ComputeIsAtomic ==
  [][last'.op \in ComputeOps =>
       /\ last'.raised => caches' = caches
       /\ caches' # caches => ~last'.raised /\ Completed(last')
       /\ ~last'.raised =>
             \A c \in CacheNames :
                c = Target(last'.op) => last'.id \in DOMAIN Cache(c)']_vars

\* a call raised after a step of it had completed, under an identifier that
\* held an entry
WitnessC1 ==
  /\ last.op \in ComputeOps /\ last.raised /\ last.trace # <<>>
  /\ last.id \in DOMAIN Cache(Target(last.op))

\* C2: a cache is changed only by its own compute_* and add_*; such a call
\* touches the entry under the identifier it is given and no other; in every
\* other operation of the instance each entry, and the object it refers to,
\* is the same before and after.
CachesAreIndependent ==
  [][last'.op # "caller_edits" =>
       \A c \in CacheNames :
          /\ Cache(c)' # Cache(c) => Target(last'.op) = c
          /\ \A id \in DOMAIN Cache(c) \cup DOMAIN Cache(c)' :
                (Target(last'.op) # c \/ id # last'.id) =>
                   /\ id \in DOMAIN Cache(c) /\ id \in DOMAIN Cache(c)'
                   /\ Cache(c)'[id] = Cache(c)[id]
                   /\ \A o \in {Cache(c)[id].name, Cache(c)[id].alias} \ {""} :
                         world'[o] = world[o]]_vars

\* an entry was added to hr_results next to another one, with hrv_results filled
WitnessC2 ==
  /\ last.op = "add_hr_results"
  /\ DOMAIN hr_results = Ids /\ hrv_results # EmptyMap

\* C3: no operation removes an entry from a cache: an identifier once in a
\* cache stays in it.
NoEviction ==
  [][\A c \in CacheNames : DOMAIN Cache(c) \subseteq DOMAIN Cache(c)']_vars

\* raw data was added while hr_results held an entry
WitnessC3 ==
  /\ last.op = "add_hr_data" /\ ~last.raised /\ hr_data # EmptyMap
  /\ hr_results # EmptyMap

\* C4: every entry reads as it did when it was last written, whatever the
\* caller does to the objects it passed in or got back.
EntriesAreImmutable ==
  \A c \in CacheNames : \A id \in DOMAIN Cache(c) :
     Read(Cache(c)[id]) = written[c][id]

\* the steps of the call ran in the documented order: all the enabled ones if
\* it returned, those before the failing one if it raised
Followed(call) ==
  LET exp == Enabled(OrderOf(call.op), call.flags)
      n == Len(call.trace)
  IN IF ~call.raised THEN call.trace = exp
     ELSE \/ call.at = "study_part" /\ call.trace = <<>>
          \/ /\ n < Len(exp)
             /\ call.trace = SubSeq(exp, 1, n)
             /\ call.at = exp[n + 1]

PartOf(call) == IF call.part = None THEN "Study" ELSE call.part[1]

\* what the call left in its cache
Stored(call) == Read(Cache(Target(call.op))[call.id])

Bit(b) == IF b THEN 1 ELSE 0

\* C5: compute_hr_results runs exactly the steps whose flag is true, in the
\* order resample, normalize, select_phases, split_into_subphases,
\* mean_per_subject, add_conditions, for every combination of the six flags;
\* the entry stored bears the marks of every enabled step and of no other.
HrStepsInOrder ==
  last.op = "compute_hr_results" =>
     /\ Followed(last)
     /\ ~last.raised =>
          LET v == Stored(last)
          IN /\ \A i \in 1..Len(v.ents) :
                   /\ v.ents[i].leaf.res = last.flags.resample_sec
                   /\ v.ents[i].leaf.norm = last.flags.normalize_to
                   /\ Len(v.ents[i].path) =
                         2 + Bit(last.flags.split_into_subphases)
                           + Bit(last.flags.add_conditions)
             /\ (v.shape = "table") = last.flags.mean_per_subject

\* a call with all six steps enabled returned
WitnessC5 ==
  /\ last.op = "compute_hr_results" /\ ~last.raised
  /\ Len(last.trace) = Len(HrOrder)

\* C6: compute_hrv_results runs select_phases (if enabled),
\* split_into_subphases (if enabled), the HRV computation, the drop of the
\* innermost index level, add_conditions (if enabled), in this order; the
\* table stored has lost exactly the level the HRV function added, and the
\* condition level, when added, is its last.
HrvStepsInOrder ==
  last.op = "compute_hrv_results" =>
     /\ Followed(last)
     /\ ~last.raised =>
          LET v == Stored(last)
          IN /\ v.shape = "table"
             /\ \A i \in 1..Len(v.names) : v.names[i] # ""
             /\ \A i \in 1..Len(v.ents) : Len(v.ents[i].path) = Len(v.names)
             /\ last.flags.add_conditions <=> v.names[Len(v.names)] = "condition"

\* a call with the three optional steps enabled returned
WitnessC6 ==
  /\ last.op = "compute_hrv_results" /\ ~last.raised
  /\ Len(last.trace) = Len(HrvOrder)

\* C7: compute_hr_ensemble runs its steps in the order resample, normalize,
\* rearrange, select_phases, cut_phases, merge_dict, add_conditions, whatever
\* the flags; the rearrangement always runs; the entry stored bears the marks
\* of every step that ran.
EnsembleStepsInOrder ==
  last.op = "compute_hr_ensemble" =>
     /\ Followed(last)
     /\ ~last.raised =>
          LET v == Stored(last)
          IN /\ \A i \in 1..Len(v.ents) :
                   /\ v.ents[i].leaf.res = last.flags.resample_sec
                   /\ v.ents[i].leaf.norm = last.flags.normalize_to
             /\ v.shape = IF last.flags.add_conditions THEN "by_condition"
                          ELSE IF last.flags.merge_dict THEN "merged"
                          ELSE "phase_outer"

\* a call with every step enabled returned
WitnessC7 ==
  /\ last.op = "compute_hr_ensemble" /\ ~last.raised
  /\ Len(last.trace) = Len(EnsembleOrder)

\* C8: compute_hr_results looks up in params only the keys of enabled steps;
\* with every flag false it looks up none and stores, under result_id, exactly
\* the keys and series of hr_data[study_part].
DisabledStepsPassThrough ==
  last.op = "compute_hr_results" =>
     /\ \A k \in last.consulted : last.flags[k]
     /\ (last.flags = NoFlags /\ ~last.raised) =>
           /\ last.consulted = {}
           /\ Stored(last) = world[hr_data[PartOf(last)]]

\* a call with every flag false, given a filled params dictionary, returned
WitnessC8 ==
  /\ last.op = "compute_hr_results" /\ ~last.raised
  /\ last.flags = NoFlags /\ last.params_in = Some(ParamsFull)

\* C9: a compute_* call, returning or raising, leaves hr_data and rpeak_data
\* (every study part and every series in it) and the caller's params
\* dictionary as they were before the call.
RawInputsUntouched ==
  [][last'.op \in ComputeOps =>
       /\ hr_data' = hr_data /\ rpeak_data' = rpeak_data
       /\ \A k \in DOMAIN hr_data : world'[hr_data'[k]] = world[hr_data[k]]
       /\ \A k \in DOMAIN rpeak_data : world'[rpeak_data'[k]] = world[rpeak_data[k]]
       /\ last'.params_out = last'.params_in]_vars

\* a call that looked up params and transformed the data returned
WitnessC9 ==
  /\ last.op \in ComputeOps /\ ~last.raised
  /\ last.params_in # None /\ last.consulted # {} /\ Len(last.trace) > 2

\* the nesting depth of a dictionary
Depth(v) == Len(v.ents[1].path)

\* C10: whenever the number of level names differs from the nesting depth of
\* the dictionary the HRV computation is given, the call raises
\* ConfigurationError and hrv_results stays empty.
DepthMismatchRejected ==
  (/\ last.op = "compute_hrv_results"
   /\ last.at \notin {"study_part", "select_phases", "split_into_subphases"}
   /\ Len(DictLevels(last.flags, last.levels))
         # Depth(world[rpeak_data[PartOf(last)]])
             + Bit(last.flags.split_into_subphases))
  => /\ last.raised /\ last.err = "ConfigurationError"
     /\ hrv_results = EmptyMap

\* the params dictionary a call works with
ParamsOf(call) == IF call.params_in = None THEN NoParams ELSE call.params_in[1]

\* the R-peak dictionary that reaches the HRV computation of a call that got
\* that far: the stored one, its phases selected and split as the flags say
HrvInput(call) ==
  LET d0 == world[rpeak_data[PartOf(call)]]
      d1 == IF call.flags.select_phases
            THEN select_dict_phases(d0, ParamsOf(call).select_phases).v ELSE d0
  IN IF call.flags.split_into_subphases
     THEN split_dict_into_subphases(d1, ParamsOf(call).split_into_subphases).v
     ELSE d1

\* C11: _compute_hrv_dict yields one group for every leaf table, each the
\* output of one HRV call and addressed by the leaf's full key path, in the
\* order of the dictionary, with the index levels named by dict_levels from
\* the outermost on; a value that is neither dictionary nor table raises and
\* hrv_results stays as it was.
HrvOncePerLeaf ==
  (last.op = "compute_hrv_results" /\ last.at \notin {"study_part", "select_phases",
                                                     "split_into_subphases"})
  => LET d == HrvInput(last)
         n == Depth(d)
     IN /\ (\E i \in 1..Len(d.ents) : d.ents[i].leaf.kind = "other") =>
              /\ last.raised /\ last.at = "hrv"
              /\ hrv_results = EmptyMap
        /\ ~last.raised =>
              LET v == Stored(last)
              IN /\ Len(v.ents) = Len(d.ents)
                 /\ \A i \in 1..Len(v.ents) :
                       /\ SubSeq(v.ents[i].path, 1, n) = d.ents[i].path
                       /\ v.ents[i].leaf.kind = "hrv"
                       /\ v.ents[i].leaf.cols = d.ents[i].leaf.cols
                 /\ SubSeq(v.names, 1, n)
                       = SubSeq(DictLevels(last.flags, last.levels), 1, n)
                 /\ Len(v.names) = n + Bit(last.flags.add_conditions)

\* a dictionary nested three deep was processed under three level names
WitnessC11 ==
  /\ last.op = "compute_hrv_results" /\ ~last.raised
  /\ Depth(HrvInput(last)) = 3 /\ Len(Stored(last).ents) > 2

JsonPath(stem) == [stem |-> stem, ext |-> ".json"]

PersistenceScope ==
  [][/\ last'.op \in {"to_file", "from_file"} =>
           UNCHANGED <<world, raw, caches, basics, saliva>>
     /\ (last'.op = "to_file" /\ ~last'.raised) =>
           DOMAIN files'.json[JsonPath(last'.id)] = {"name", "structure", "test_times"}
     /\ (last'.op = "from_file" /\ ~last'.raised) =>
           /\ loaded'[1].saliva_types = Some(<<>>)
           /\ \A k \in {"sample_times", "saliva_data", "hr_data", "rpeak_data",
                        "hr_results", "hrv_results", "hr_ensemble"} :
                 loaded'[1][k] = <<>>]_vars

\* an instance holding raw data and a result was saved and loaded
WitnessC13 ==
  /\ last.op = "from_file" /\ ~last.raised
  /\ hr_data # EmptyMap \/ hr_results # EmptyMap \/ saliva_data # EmptyMap

\* the file an export call is to write for the identifier id
ExportFile(call, id) ==
  <<call.base_path,
    FileName(IF call.prefix = None THEN Slug(name) ELSE call.prefix[1], id)>>

\* C14: after export_hr_results (export_hrv_results) into an existing
\* directory, every identifier in hr_results (hrv_results) has its file
\* {prefix}_{id}.csv in base_path, holding its entry, the prefix defaulting to
\* the name in lowercase with "_" for " "; distinct identifiers have distinct
\* files.
ExportWritesEveryEntry ==
  (last.op \in {"export_hr_results", "export_hrv_results"} /\ last.at # "base_path")
  => LET cache == IF last.op = "export_hr_results" THEN hr_results ELSE hrv_results
     IN /\ \A id \in DOMAIN cache :
              /\ ExportFile(last, id) \in DOMAIN files.csv
              /\ files.csv[ExportFile(last, id)] = Read(cache[id])
        /\ \A id1, id2 \in DOMAIN cache :
              ExportFile(last, id1) = ExportFile(last, id2) => id1 = id2

MinOf(S) == CHOOSE x \in S : \A y \in S : x <= y

\* the leaves of the raw heart-rate data of a call's study part for phase p
HrLeavesOf(call, p) ==
  LET d == world[hr_data[PartOf(call)]]
  IN {i \in 1..Len(d.ents) : d.ents[i].path[2] = p}

\* the lengths of the subjects' series of phase p as they reach the cut and
\* the merge of a compute_hr_ensemble call (resampled to one row per second
\* if the call resamples)
SeriesLengths(call, p) ==
  LET d == world[hr_data[PartOf(call)]]
  IN {IF call.flags.resample_sec THEN d.ents[i].leaf.dur ELSE d.ents[i].leaf.rows :
        i \in HrLeavesOf(call, p)}

\* the stored ensemble has one frame per phase, as long as the shortest series
\* of the phase, with one column per subject (per subject of the condition
\* if the conditions were split)
MergedToShortest(call) ==
  LET v == Stored(call)
      d == world[hr_data[PartOf(call)]]
      Phase(e) == e.path[Len(e.path)]
  IN /\ \A i, j \in 1..Len(v.ents) : v.ents[i].path = v.ents[j].path => i = j
     /\ \A i \in 1..Len(v.ents) :
           /\ v.ents[i].leaf.rows = MinOf(SeriesLengths(call, Phase(v.ents[i])))
           /\ ~call.flags.add_conditions =>
                 /\ Len(v.ents[i].leaf.cols)
                       = Cardinality(HrLeavesOf(call, Phase(v.ents[i])))
                 /\ SeqToSet(v.ents[i].leaf.cols)
                       = {d.ents[k].path[1] : k \in HrLeavesOf(call, Phase(v.ents[i]))}

\* C15: compute_hr_ensemble with cut_phases and merge_dict enabled does not
\* fail in these two steps and stores, per phase, one frame with one column
\* per subject and as many rows as the shortest series of the phase has.
CutThenMerge ==
  (/\ last.op = "compute_hr_ensemble"
   /\ last.flags.cut_phases /\ last.flags.merge_dict)
  => /\ last.at \notin {"cut_phases", "merge_dict"}
     /\ ~last.raised => MergedToShortest(last)

\* two subjects with series of different length in a phase were cut and merged
WitnessC15 ==
  /\ last.op = "compute_hr_ensemble" /\ ~last.raised
  /\ last.flags.cut_phases /\ last.flags.merge_dict /\ ~last.flags.add_conditions
  /\ \E i \in 1..Len(Stored(last).ents) :
        /\ Len(Stored(last).ents[i].leaf.cols) = 2
        /\ Cardinality(SeriesLengths(last, Stored(last).ents[i].path[1])) = 2

RECURSIVE SumSeq(_)
SumSeq(ns) == IF ns = <<>> THEN 0 ELSE Head(ns) + SumSeq(Tail(ns))

\* the entries stored by a call for the series of subject s in phase p
WindowsOf(call, s, p) ==
  LET v == Stored(call)
  IN SelectSeq2(v.ents, {i \in 1..Len(v.ents) :
        /\ Len(v.ents[i].path) >= 3
        /\ v.ents[i].path[1] = s /\ v.ents[i].path[2] = p})

\* the subphase mapping a call was given
MappingOf(call) == ParamsOf(call).split_into_subphases[1]

\* the windows stored for subject s, phase p are keyed by the subphase names
\* in the order of the mapping
WindowsKeyed(call, s, p) ==
  LET w == WindowsOf(call, s, p)
      durs == MappingOf(call)
  IN /\ Len(w) = Len(durs)
     /\ \A k \in 1..Len(durs) : w[k].path[3] = durs[k][1]

\* the windows of a series of D seconds, one after the other from its start:
\* each has its nominal duration unless the series ends in it or before it
WindowsConsecutive(call, s, p, D) ==
  LET w == WindowsOf(call, s, p)
      durs == MappingOf(call)
      got == Tuple([k \in 1..Len(w) |-> w[k].leaf.dur])
      nominal == Tuple([k \in 1..Len(durs) |-> durs[k][2]])
  IN /\ \A k \in 1..Len(w) :
          /\ got[k] <= nominal[k]
          /\ got[k] < nominal[k] => SumSeq(SubSeq(got, 1, k)) = D
     /\ SumSeq(got) = Min2(D, SumSeq(nominal))

\* C17: the subphase split gives every series one window per subphase, keyed
\* in the order of the mapping (in compute_hr_results and in
\* compute_hrv_results); the windows follow each other from the start of the
\* series, each of its nominal duration unless the series is exhausted, their
\* durations sum to min(series duration, sum of the nominal durations), and a
\* series shorter than the mapping is not an error.
SubphaseWindows ==
  /\ (/\ last.op \in {"compute_hr_results", "compute_hrv_results"}
      /\ last.at = "split_into_subphases")
     => \/ ParamsOf(last).split_into_subphases = None
        \/ \E i \in 1..Len(world[IF last.op = "compute_hr_results"
                                 THEN hr_data[PartOf(last)]
                                 ELSE rpeak_data[PartOf(last)]].ents) :
              Len(world[IF last.op = "compute_hr_results"
                        THEN hr_data[PartOf(last)]
                        ELSE rpeak_data[PartOf(last)]].ents[i].path) # 2
  /\ (/\ last.op \in {"compute_hr_results", "compute_hrv_results"}
      /\ last.flags.split_into_subphases /\ ~last.raised)
     => \A i \in 1..Len(Stored(last).ents) :
           WindowsKeyed(last, Stored(last).ents[i].path[1], Stored(last).ents[i].path[2])
  /\ (/\ last.op = "compute_hr_results"
      /\ last.flags.split_into_subphases /\ ~last.flags.mean_per_subject
      /\ ~last.raised)
     => LET d == world[hr_data[PartOf(last)]]
        IN \A i \in 1..Len(d.ents) :
              WindowsOf(last, d.ents[i].path[1], d.ents[i].path[2]) # <<>>
              => WindowsConsecutive(last, d.ents[i].path[1], d.ents[i].path[2],
                                    d.ents[i].leaf.dur)

\* a series of 6 seconds was split by durations 2, 3, 2 into windows of 2, 3
\* and 1 seconds
WitnessC17 ==
  /\ last.op = "compute_hr_results" /\ ~last.raised
  /\ last.flags.split_into_subphases /\ ~last.flags.mean_per_subject
  /\ MappingOf(last) = Subphases
  /\ \E s \in {"s1", "s2"}, p \in {"p1", "p2"} :
        LET w == WindowsOf(last, s, p)
        IN /\ Len(w) = 3
           /\ <<w[1].leaf.dur, w[2].leaf.dur, w[3].leaf.dur>> = <<2, 3, 1>>

\* the (subject, phase[, subphase]) combinations of the data that reach the
\* mean_per_subject step of a compute_hr_results call
Combinations(call) ==
  LET d == world[hr_data[PartOf(call)]]
      phases == IF call.flags.select_phases
                THEN SeqToSet(ParamsOf(call).select_phases[1])
                ELSE {d.ents[i].path[2] : i \in 1..Len(d.ents)}
      base == {d.ents[i].path : i \in {j \in 1..Len(d.ents) : d.ents[j].path[2] \in phases}}
  IN IF call.flags.split_into_subphases
     THEN {Append(b, MappingOf(call)[k][1]) : b \in base, k \in 1..Len(MappingOf(call))}
     ELSE base

WitnessC18Default ==
  /\ last.op = "compute_hr_results" /\ last.flags.mean_per_subject
  /\ ~last.raised /\ ParamsOf(last).mean_per_subject = None
  /\ Len(Stored(last).ents) = 4
  /\ Stored(last).names = <<"subject", "phase">>

\* lists of phase names to select again with
NameLists == {<<>>, <<"p1">>, <<"p2">>, <<"p1", "p2">>, <<"p2", "p1">>}

\* a call that did nothing but select phases
OnlySelects(call) ==
  /\ ~call.raised
  /\ \A k \in DOMAIN call.flags : call.flags[k] <=> k = "select_phases"

\* C19: phase selection keeps exactly the named phases, in the order of the
\* names list, and selecting a subset of the names from a selection gives
\* what selecting the subset from the data gives; in compute_hr_results and
\* compute_hrv_results (select_dict_phases) and in compute_hr_ensemble (the
\* inline selection).
SelectionOrderedIdempotent ==
  /\ (/\ last.op \in {"compute_hr_results", "compute_hrv_results"}
      /\ last.flags.select_phases /\ ~last.raised)
     => LET v == Stored(last)
        IN \A s \in SeqToSet(KeysAt(v.ents, 1)) :
              KeysAt(Below(v.ents, 1, s), 2) = Uniq(ParamsOf(last).select_phases[1])
  /\ (/\ last.op = "compute_hr_ensemble" /\ ParamsOf(last).select_phases # None
      /\ last.flags.select_phases /\ ~last.flags.add_conditions /\ ~last.raised)
     => KeysAt(Stored(last).ents, 1) = Uniq(ParamsOf(last).select_phases[1])
  /\ (last.op = "compute_hr_results" /\ OnlySelects(last))
     => \A sub \in NameLists :
           SeqToSet(sub) \subseteq SeqToSet(ParamsOf(last).select_phases[1])
           => select_dict_phases(Stored(last), Some(sub))
                 = select_dict_phases(world[hr_data[PartOf(last)]], Some(sub))
  /\ (/\ last.op = "compute_hr_ensemble" /\ OnlySelects(last)
      /\ ParamsOf(last).select_phases # None)
     => \A sub \in NameLists :
           SeqToSet(sub) \subseteq SeqToSet(ParamsOf(last).select_phases[1])
           => SelectInline(Stored(last), Some(sub))
                 = SelectInline(
                     rearrange_subject_data_dict(world[hr_data[PartOf(last)]]).v,
                     Some(sub))

\* phases p2, p1 were selected from data that has them as p1, p2
WitnessC19 ==
  /\ last.op \in {"compute_hr_results", "compute_hr_ensemble"}
  /\ OnlySelects(last)
  /\ ParamsOf(last).select_phases = Some(<<"p2", "p1">>)
  /\ KeysAt(world[hr_data[PartOf(last)]].ents, 2) = <<"p1", "p2">>
  /\ Len(Stored(last).ents) = 4

\* the data a compute_* call works on
DataOf(call) ==
  world[IF call.op = "compute_hrv_results" THEN rpeak_data[PartOf(call)]
        ELSE hr_data[PartOf(call)]]

\* a compute_* call with select_phases enabled whose selection step was run
ReachedSelect(call) ==
  /\ call.op \in ComputeOps /\ call.flags.select_phases
  /\ ~call.flags.normalize_to /\ call.at # "study_part"

\* a call that names a phase the data does not have raises in the selection
\* step and leaves its cache empty
UnknownPhaseRejected ==
  (/\ ReachedSelect(last) /\ ParamsOf(last).select_phases # None
   /\ \E n \in SeqToSet(ParamsOf(last).select_phases[1]) :
         n \notin {DataOf(last).ents[i].path[2] :
                     i \in {j \in 1..Len(DataOf(last).ents) :
                              Len(DataOf(last).ents[j].path) >= 2}})
  => /\ last.raised /\ last.at = "select_phases"
     /\ Cache(Target(last.op)) = EmptyMap

\* an unknown phase was named to each of the three operations
ReachedUnknownPhase(op) ==
  /\ last.op = op /\ ReachedSelect(last)
  /\ ParamsOf(last).select_phases = Some(<<"p1", "px">>)
  /\ last.raised /\ last.at = "select_phases"

\* C20: with select_phases enabled and no names under "select_phases" in
\* params, compute_hr_results, compute_hrv_results and compute_hr_ensemble
\* behave alike: the selection step raises and nothing is stored.
SelectWithoutNamesAlike ==
  (ReachedSelect(last) /\ ParamsOf(last).select_phases = None)
  => /\ last.raised /\ last.at = "select_phases"
     /\ Cache(Target(last.op)) = EmptyMap

\* the part of C20 that compute_hr_results and compute_hrv_results keep
SelectWithoutNamesRaisesInResults ==
  (last.op \in {"compute_hr_results", "compute_hrv_results"})
  => SelectWithoutNamesAlike

\* C21: for every saliva type that has an entry in saliva_data, sample_times
\* has an entry with as many sample times as saliva_data[t] has samples per
\* subject.
SampleTimesMatchData ==
  \A t \in DOMAIN saliva_data :
     /\ t \in DOMAIN sample_times
     /\ Len(sample_times[t]) = saliva_data[t].n

\* the invariant as it holds right after a call that returned: for the types
\* of that call
SampleTimesMatchAfterSuccess ==
  (last.op = "add_saliva_data" /\ ~last.raised /\ last.args[1] # None)
  => \A t \in SeqToSet(saliva_types[1]) :
        /\ t \in DOMAIN sample_times /\ t \in DOMAIN saliva_data
        /\ Len(sample_times[t]) = saliva_data[t].n

WitnessC22Shifted ==
  /\ last.op = "add_saliva_data" /\ ~last.raised
  /\ test_times.items = <<5, 30>>
  /\ sample_times["cortisol"] = <<4, 5, 15>>

\* C23: an add_saliva_data call that raises leaves saliva_types, test_times,
\* sample_times and saliva_data as they were before the call.
SalivaCallAllOrNothing ==
  [][(last'.op = "add_saliva_data" /\ last'.raised)
     => UNCHANGED <<saliva_types, test_times, sample_times, saliva_data>>]_vars

\* the part of C23 the code keeps: a call that raises leaves saliva_data as
\* it was
SalivaDataKeptOnError ==
  [][(last'.op = "add_saliva_data" /\ last'.raised)
     => UNCHANGED saliva_data]_vars

\* C24: after an add_saliva_data call that was given data and returned, the
\* names in saliva_types are the keys of saliva_data and of sample_times
\* (stated of the states in which no rejected call has left its trace in
\* sample_times).
SalivaTypesArePresentTypes ==
  (/\ last.op = "add_saliva_data" /\ ~last.raised /\ last.args[1] # None
   /\ DOMAIN sample_times = DOMAIN saliva_data /\ SampleTimesMatchData)
  => SeqToSet(saliva_types[1]) = DOMAIN saliva_data

\* what the code keeps of C24: the types of the last call that returned are
\* among the keys of saliva_data and of sample_times
SalivaTypesAreLastTypes ==
  (last.op = "add_saliva_data" /\ ~last.raised /\ last.args[1] # None)
  => /\ SeqToSet(saliva_types[1]) \subseteq DOMAIN saliva_data
     /\ SeqToSet(saliva_types[1]) \subseteq DOMAIN sample_times

\* a call made without params ended as the same call with params = {} ends:
\* with the same exception from the same step, or with the same value stored
EndsAsWithEmptyParams(call) ==
  \E mode \in MergeModes :
  \E w \in {CASE call.op = "compute_hr_results" ->
                   HrPipeline(call.part, call.flags, Some(NoParams))
              [] call.op = "compute_hrv_results" ->
                   HrvPipeline(call.part, call.flags, call.levels, Some(NoParams))
              [] OTHER ->
                   EnsemblePipeline(call.part, call.flags, Some(NoParams), mode)} :
     /\ w.err = call.err /\ w.at = call.at
     /\ w.err = "" => Stored(call) = w.v

\* C25: a compute_* call with params omitted behaves as the same call with
\* params = {}, under every combination of the step flags.
ParamsOmittedIsEmpty ==
  (last.op \in ComputeOps /\ last.params_in = None) => EndsAsWithEmptyParams(last)

\* the part of C25 that compute_hr_results and compute_hrv_results keep
ParamsOmittedIsEmptyInResults ==
  (last.op \in {"compute_hr_results", "compute_hrv_results"} /\ last.params_in = None)
  => EndsAsWithEmptyParams(last)

\* the call as it ends when made with study part sp instead
EndsAsWithPart(call, sp) ==
  \E mode \in MergeModes :
  \E w \in {CASE call.op = "compute_hr_results" ->
                   HrPipeline(sp, call.flags, call.params_in)
              [] call.op = "compute_hrv_results" ->
                   HrvPipeline(sp, call.flags, call.levels, call.params_in)
              [] OTHER ->
                   EnsemblePipeline(sp, call.flags, call.params_in, mode)} :
     /\ w.err = call.err /\ w.at = call.at
     /\ w.err = "" => Stored(call) = w.v

\* the raw store a compute_* operation reads
StoreOf(op) == IF op = "compute_hrv_results" THEN rpeak_data ELSE hr_data

\* C26: add_hr_data with study_part omitted stores under "Study"; a compute_*
\* call that omits study_part or passes "Study" works on the data stored
\* under "Study" and ends as the same call made the other way; a compute_*
\* call for a study part without data raises and stores nothing.
StudyIsDefaultPart ==
  /\ (last.op = "add_hr_data" /\ ~last.raised /\ last.part = None)
     => /\ "Study" \in DOMAIN hr_data /\ hr_data["Study"] = last.args[1]
        /\ last.args[2] # None =>
              "Study" \in DOMAIN rpeak_data /\ rpeak_data["Study"] = last.args[2][1]
  /\ (last.op \in ComputeOps /\ last.part \in {None, Some("Study")})
     => /\ EndsAsWithPart(last, None) /\ EndsAsWithPart(last, Some("Study"))
        /\ last.at = "study_part" <=> "Study" \notin DOMAIN StoreOf(last.op)
        /\ (/\ last.op = "compute_hr_results" /\ ~last.raised
            /\ \A k \in DOMAIN last.flags : ~last.flags[k])
           => Stored(last) = world[hr_data["Study"]]
  /\ (last.op \in ComputeOps /\ PartOf(last) \notin DOMAIN StoreOf(last.op))
     => /\ last.raised /\ last.at = "study_part"
        /\ Cache(Target(last.op)) = EmptyMap

\* data added without a study part was processed by a call that passed "Study"
WitnessC26 ==
  /\ last.op = "compute_hr_results" /\ ~last.raised
  /\ last.part = Some("Study") /\ hr_data = [Study |-> "d1"]
  /\ Stored(last) = world["d1"]

\* data added under "Study" was processed by a call without a study part
WitnessC26Omitted ==
  /\ last.op \in ComputeOps /\ ~last.raised
  /\ last.part = None /\ hr_data = [Study |-> "d2"]

\* a call named a study part without data
WitnessC26Missing ==
  /\ last.op \in ComputeOps /\ last.part = Some("Part2")
  /\ "Part2" \notin DOMAIN hr_data /\ last.at = "study_part"

\* the place of a step in the steps a call ran, 0 if it did not run
PlaceOf(call, step) ==
  IF \E i \in 1..Len(call.trace) : call.trace[i] = step
  THEN CHOOSE i \in 1..Len(call.trace) : call.trace[i] = step
  ELSE 0

\* C27: every compute_hr_ensemble call that gets as far rearranges the data
\* to phase-outer nesting, whatever its flags; the phase selection, the cut
\* and the merge run after the rearrangement, or fail on rearranged data, and
\* what is stored without merging and condition split is the raw data keyed
\* phase first, subject second.
RearrangedBeforeCut ==
  (/\ last.op = "compute_hr_ensemble"
   /\ last.at \notin {"study_part", "resample", "normalize"})
  => /\ PlaceOf(last, "rearrange") > 0
     /\ \A step \in {"select_phases", "cut_phases", "merge_dict"} :
           /\ PlaceOf(last, step) > 0 => PlaceOf(last, "rearrange") < PlaceOf(last, step)
           /\ last.at = step => PlaceOf(last, "rearrange") > 0
     /\ ~last.raised => Stored(last).shape # "subject_outer"
     /\ (~last.raised /\ ~last.flags.merge_dict /\ ~last.flags.add_conditions)
        => /\ Stored(last).shape = "phase_outer"
           /\ \A i \in 1..Len(Stored(last).ents) :
                 \E k \in 1..Len(world[hr_data[PartOf(last)]].ents) :
                    Stored(last).ents[i].path
                       = <<world[hr_data[PartOf(last)]].ents[k].path[2],
                           world[hr_data[PartOf(last)]].ents[k].path[1]>>

\* a call with every flag off stored the data rearranged, and nothing else
WitnessC27 ==
  /\ last.op = "compute_hr_ensemble" /\ ~last.raised
  /\ \A k \in DOMAIN last.flags : ~last.flags[k]
  /\ last.trace = <<"rearrange">>
  /\ Stored(last).ents[2].path = <<"p1", "s2">>

\* a call with only cut_phases on cut rearranged data
WitnessC27Cut ==
  /\ last.op = "compute_hr_ensemble" /\ ~last.raised
  /\ \A k \in DOMAIN last.flags : last.flags[k] <=> k = "cut_phases"
  /\ last.trace = <<"rearrange", "cut_phases">>

\* C28: an add_hr_data call whose check of hr_data raises changes neither
\* raw store; one that returns replaces hr_data[study_part] and writes
\* rpeak_data[study_part] only if R-peak data is given; the study parts with
\* R-peak data are always among those with heart-rate data.
RawStoresConsistent ==
  /\ [](DOMAIN rpeak_data \subseteq DOMAIN hr_data)
  /\ [][last'.op = "add_hr_data" =>
          /\ last'.raised <=> ~is_study_data_dict(world[last'.args[1]])
          /\ last'.raised => UNCHANGED <<hr_data, rpeak_data>>
          /\ ~last'.raised =>
                /\ hr_data' = Put(hr_data, PartOf(last'), last'.args[1])
                /\ rpeak_data' = IF last'.args[2] = None THEN rpeak_data
                                 ELSE Put(rpeak_data, PartOf(last'), last'.args[2][1])]_vars

\* a call that brought R-peak data was rejected on an instance that holds
\* heart-rate and R-peak data of the same part
WitnessC28 ==
  /\ last.op = "add_hr_data" /\ last.raised /\ last.args[2] # None
  /\ hr_data = [Study |-> "d2"] /\ rpeak_data = [Study |-> "k1"]

ExportOps == {"export_hr_results", "export_hrv_results"}
FileOps == {"to_file", "from_file"}
GetOps == {"get_hr_results", "get_hrv_results", "get_hr_ensemble"}

\* the cache a getter reads
GetterCache(op) ==
  CASE op = "get_hr_results" -> hr_results
    [] op = "get_hrv_results" -> hrv_results
    [] OTHER -> hr_ensemble

\* C29: the export, file and get operations change no cache and no raw-data
\* store; an export to a base_path that is not a directory raises ValueError
\* and writes no file; to_file and from_file reject a path not ending in
\* .json without touching a file; a getter returns None for an identifier
\* that is absent.
ReadersFailCleanly ==
  [][last'.op \in ExportOps \cup FileOps \cup GetOps =>
       /\ UNCHANGED <<world, raw, caches>>
       /\ (last'.op \in ExportOps /\ last'.base_path \notin Dirs)
          => /\ last'.raised /\ last'.err = "ValueError"
             /\ UNCHANGED files
       /\ (last'.op \in FileOps /\ last'.args[1].ext # ".json")
          => /\ last'.raised /\ last'.at = "file_path"
             /\ UNCHANGED <<files, loaded>>
       /\ (last'.op \in GetOps /\ last'.id \notin DOMAIN GetterCache(last'.op))
          => /\ ~last'.raised /\ last'.ret = None]_vars

\* results that could have been exported were not, for want of a directory
WitnessC29 ==
  /\ last.op = "export_hr_results" /\ last.raised /\ last.err = "ValueError"
  /\ \E id \in DOMAIN hr_results : Read(hr_results[id]).shape = "table"
  /\ files.csv = EmptyMap

\* a getter was asked for an identifier that its cache lacks while another
\* cache has it
WitnessC29Absent ==
  /\ last.op = "get_hrv_results" /\ last.ret = None
  /\ last.id \in DOMAIN hr_results

\* C30: invert with inplace=False returns score_range[1] - x + score_range[0]
\* for every score x and leaves its argument as it was; inverting what it
\* returned with the same score_range gives the argument back; a score within
\* the range is mapped to a score within the range, the two ends to each
\* other.
InvertIsInvolution ==
  (last.op = "invert" /\ ~last.args[4])
  => LET arg == last.args[1]
         lo == last.args[2][1]
         hi == last.args[2][2]
         out == last.ret[1]
     IN /\ ~last.raised /\ last.ret # None
        /\ world[last.id] = arg
        /\ out.kind = arg.kind /\ out.labels = arg.labels
        /\ Len(out.vals) = Len(arg.vals)
        /\ \A c \in 1..Len(arg.vals) :
              /\ Len(out.vals[c]) = Len(arg.vals[c])
              /\ \A i \in 1..Len(arg.vals[c]) :
                    LET x == arg.vals[c][i]
                        y == out.vals[c][i]
                    IN /\ y = hi - x + lo
                       /\ (lo <= x /\ x <= hi) => (lo <= y /\ y <= hi)
                       /\ x = lo => y = hi
                       /\ x = hi => y = lo
        /\ InvertColumns(out, last.args[2], 1..Len(out.vals)) = arg

\* the scores 1 and 4 of a series were inverted in the range 1..4, and the
\* result inverted again: the caller holds the original scores twice
WitnessC30 ==
  /\ last.op = "invert" /\ ~last.args[4] /\ last.id = "r1"
  /\ last.args[2] = <<1, 4>>
  /\ world["q"].vals = <<<<1, 4>>>> /\ world["r1"].vals = <<<<4, 1>>>>
  /\ last.ret[1] = world["q"]

====
